---- MODULE Spec2Model ----
(***************************************************************************)
(* Tiled inference of the image tools: the overlapped tilers of            *)
(* bin/image_upscale_direct.py and bin/video_upscale_direct.py, and the    *)
(* grid tilers of python_cli/utils.py (BaseImageInference) and             *)
(* python_cli/coreml_inference.py (CoreMLInference).                       *)
(*                                                                         *)
(* A raster is kept as the log of the slice assignments made to it, in     *)
(* program order, over an array of a recorded shape.  A pixel holds what   *)
(* the last assignment covering it wrote, and zero when none covers it.    *)
(* Whether an assignment covers a pixel depends only on comparisons of the *)
(* pixel's row and column with the assignment's edges, so a pixel has the  *)
(* same covering assignments as the pixel at the greatest edge row and     *)
(* edge column not after it: the pixels at edge rows and edge columns      *)
(* stand for all pixels of the raster.                                     *)
(***************************************************************************)
EXTENDS Integers, Sequences, FiniteSets, TLC

\* ------------------------------------------------------------------ bounds

\* Model calls that may raise within one run.
MaxFailures == 2

\* the runs made on one inference object
MaxRuns == 3

\* the operations made on one cache
MaxOps == 4

\* --------------------------------------------------------- program constants

DefaultTileSize == 1024
ImageOverlap == 64
ImageMinTile == 32
VideoOverlap == 64
VideoMinTile == 16
VideoScale == 4
Channels == 3

\* ------------------------------------------------------------------ inputs

\* main() of image_upscale_direct.py accepts the scales 2 and 4.
ImageScales == {2, 4}

\* Image runs: shape (h, w) and the instance's tile size (1024 from the
\* constructor, or the value of --tile).
ImageRuns ==
    { [h |-> 600,  w |-> 800,  t |-> DefaultTileSize],
      [h |-> 1024, w |-> 1024, t |-> DefaultTileSize],
      [h |-> 1025, w |-> 500,  t |-> DefaultTileSize],
      [h |-> 1940, w |-> 1000, t |-> DefaultTileSize],
      [h |-> 20,   w |-> 2000, t |-> DefaultTileSize],
      [h |-> 700,  w |-> 300,  t |-> 512],
      [h |-> 1500, w |-> 2000, t |-> 512] }

\* Video frames (h, w); the tile size of the video upscaler is always 1024.
VideoFrames ==
    { [h |-> 600,  w |-> 800],
      [h |-> 1000, w |-> 1000],
      [h |-> 970,  w |-> 500],
      [h |-> 10,   w |-> 500],
      [h |-> 1080, w |-> 1920] }

\* BaseImageInference runs: tensor shape (h, w) and the tile_size argument
\* of run_inference (512 by default, any integer from --tile)
BaseRuns ==
    { [h |-> 400,  w |-> 300,  t |-> 512],
      [h |-> 600,  w |-> 800,  t |-> 512],
      [h |-> 3,    w |-> 5,    t |-> 2],
      [h |-> 5,    w |-> 1,    t |-> 1],
      [h |-> 4,    w |-> 4,    t |-> 4],
      [h |-> 2,    w |-> 3,    t |-> 0],
      [h |-> 3000, w |-> 4000, t |-> 2048],
      [h |-> 5000, w |-> 5000, t |-> 4096],
      [h |-> 7000, w |-> 7000, t |-> 4096] }

BaseScales == {2, 4}
Devices == {"mps", "cuda", "cpu"}

\* CoreMLInference.upscale_image runs: image shape and the tile_size
\* argument (0 stands for None)
CoreMLRuns ==
    { [h |-> 100,  w |-> 100,  t |-> 0],
      [h |-> 100,  w |-> 100,  t |-> 64],
      [h |-> 200,  w |-> 2000, t |-> 0],
      [h |-> 1100, w |-> 1000, t |-> 0],
      [h |-> 2050, w |-> 2050, t |-> 0] }

CoreMLScales == {2, 4}

\* ------------------------------------------------------------------ helpers

Min(a, b) == IF a < b THEN a ELSE b
Max(a, b) == IF a > b THEN a ELSE b

\* math.ceil(a / b) for a >= 0, b > 0
CeilDiv(a, b) == (a + b - 1) \div b

\* len(range(0, stop, step)) for step > 0
RangeLen(stop, step) == IF stop <= 0 THEN 0 ELSE CeilDiv(stop, step)

\* len(a[s:e]) for a sequence of length n (Python slice, negative indices
\* count from the end)
SliceLen(s, e, n) ==
    LET s1 == IF s < 0 THEN Max(0, n + s) ELSE Min(s, n)
        e1 == IF e < 0 THEN Max(0, n + e) ELSE Min(e, n)
    IN  Max(0, e1 - s1)

\* numpy broadcasting of two shapes (sequences of dimensions, compared from
\* the right); <<-1>> when the shapes cannot be broadcast together
BroadcastDim(a, b) == IF a = b THEN a ELSE IF a = 1 THEN b ELSE IF b = 1 THEN a ELSE -1

Broadcast(s1, s2) ==
    IF s1 = <<-1>> \/ s2 = <<-1>> THEN <<-1>>
    ELSE LET n1 == Len(s1)
             n2 == Len(s2)
             n == Max(n1, n2)
             d1(i) == IF i + n1 - n >= 1 THEN s1[i + n1 - n] ELSE 1
             d2(i) == IF i + n2 - n >= 1 THEN s2[i + n2 - n] ELSE 1
             r == [i \in 1..n |-> BroadcastDim(d1(i), d2(i))]
         IN  IF \E i \in 1..n : r[i] = -1 THEN <<-1>> ELSE r

\* numpy: a value of shape src can be assigned to a slice of shape dst
Assignable(src, dst) == src # <<-1>> /\ Broadcast(src, dst) = dst

\* one slice assignment  raster[r0:r1, c0:c1] = <kind of tile (ty, tx)>
Write(r0, r1, c0, c1, kind, ty, tx) ==
    [r0 |-> r0, r1 |-> r1, c0 |-> c0, c1 |-> c1, kind |-> kind, ty |-> ty, tx |-> tx]

Covers(wr, r, c) == wr.r0 <= r /\ r < wr.r1 /\ wr.c0 <= c /\ c < wr.c1

\* index of the last assignment of the log covering pixel (r, c); 0 if none
LastWrite(log, r, c) ==
    LET hits == {i \in 1..Len(log) : Covers(log[i], r, c)}
    IN  IF hits = {} THEN 0 ELSE CHOOSE i \in hits : \A j \in hits : j <= i

\* ------------------------------------------------------------------ state

VARIABLES
    prog,        \* the routine that runs: "none", "image", "video", ...
    pc,          \* "idle", "loop", "done" (returned), "raised"
    img,         \* the input raster's shape [h, w]
    tile_size,   \* self.tile_size / the tile_size argument
    scale,       \* the scale factor
    y, x,        \* the loop variables of the tile loops
    out_shape,   \* shape of the output array, <<rows, cols>>; <<>> before it exists
    output,      \* the output array: the log of the assignments made to it
    calls,       \* the model calls made, in order
    tiles,       \* the tiles visited by the loop, in order
    ret,         \* what the routine returned
    device,      \* self.device of BaseImageInference
    model_dev,   \* the device the torch model is on
    allocs,      \* the output buffers allocated: where, and of what shape
    first_run,   \* the first run an inference object finished: input and result
    runs_done,   \* the number of runs the inference object has finished
    conv_unsupported, \* input shapes whose convolution the model cannot run on MPS
    frames,      \* upscale_batch_direct: the frames given, as their shapes
    batch_size,  \* its batch_size argument
    bi,          \* its loop variable i, the start of the current batch
    results,     \* its list of results
    passes,      \* the batch calls, tiled passes and Lanczos resizes it made
    bpc,         \* "idle", "loop", "done" (returned), "raised"
    batch_loading,       \* the object has the attribute _batch_loading
    original_tile_size,  \* the local variable of that name
    files,       \* the file system: path -> NoFile or the file's size and mtime
    cache,       \* CacheManager.cache: key -> entry
    disk,        \* the content of cache.json
    tmp_file,    \* the content of cache.tmp
    save_pc,     \* where a save is: "idle", "dump", "atomic_dump", "replace"
    reads,       \* what the last reader of cache.json found in it
    last,        \* the last call of get_cached_data or clear_cache, and what it returned
    stored,      \* key -> what cache_data stored with a signature, the file's size
                 \* and mtime then, and whether the file is unchanged since
    cache_ops,   \* the number of operations made on the cache
    cli,         \* the command-line program started: "none", "image", "video", "demo"
    env,         \* what the program finds: files, model, arguments, answers
    exit_status, \* the exit status of the process; -1 while it has not ended
    printed,     \* the messages the program printed about failures
    tile_arg,    \* the tile_size argument given to upscale_image; 0 for None
    vpc,         \* upscale_video_optimized: "idle", "process", "reconstruct",
                 \* "finish", "done" (returned True), "failed" (returned False)
    video,       \* the input video and the arguments: frames, frame_interval, workers
    video_runs,  \* the number of runs started on the input video
    temp_dir,    \* the temporary directory: whether it exists, and the upscaled
                 \* files in it, frame number -> "ok" or "bad" (unreadable)
    resume_mode, \* the local variables of upscale_video_optimized ...
    existing_frames,
    key_frames,
    processed_frames,
    vi,          \* the loop variable i of the loop over the batches
    sent,        \* the frames given to upscale_batch_direct by this run
    frame_idx,
    last_upscaled,
    next_upscaled,
    current_next_idx,  \* -1 while the local variable does not exist
    written,     \* the frames written to the output video by this run
    spc,         \* download_subtitles: "idle", "running", "returned"
    sub_videos,  \* its videos argument, as the list of the video ids
    skip_cached, \* its skip_cached argument
    max_workers, \* self.max_workers
    sub_cache,   \* the video ids whose subtitle file is in the cache directory
    to_download, \* videos_to_download, as the list of the video ids
    tasks,       \* the futures, one for each video of videos_to_download
    collected,   \* the futures in the order as_completed gave them
    sub_results, \* the dictionary results / the mapping returned
    dpc,         \* find-duplicate-images: "idle", "found", "deleted"
    image_files, \* the list of image files given to find_duplicates
    mode,        \* "strict", "standard" or "tolerant"
    broken,      \* the path that cannot be read during the scan, or "none"
    present,     \* the paths that are in the directory tree
    duplicates   \* the dictionary find_duplicates returned, in insertion order

\* the state of an inference object between runs
runState == <<first_run, runs_done, conv_unsupported>>

\* the state of upscale_batch_direct
batchState == <<frames, batch_size, bi, results, passes, bpc, batch_loading,
                original_tile_size>>

\* the state of a CacheManager, its files and its readers
cacheState == <<files, cache, disk, tmp_file, save_pc, reads, last, stored, cache_ops>>

\* the state of a command-line program
cliState == <<cli, env, exit_status, printed>>

\* the state of upscale_video_optimized and of its temporary directory
videoState == <<vpc, video, video_runs, temp_dir, resume_mode, existing_frames, key_frames,
                processed_frames, vi, sent, frame_idx, last_upscaled, next_upscaled,
                current_next_idx, written>>

\* the state of ParallelSubtitleDownloader.download_subtitles
subState == <<spc, sub_videos, skip_cached, max_workers, sub_cache, to_download, tasks,
              collected, sub_results>>

\* the state of DuplicateImageFinder and of the directory it scans
dupState == <<dpc, image_files, mode, broken, present, duplicates>>

\* the state outside one run of a tiler
others == <<runState, batchState, cacheState, cliState, tile_arg, videoState, subState,
            dupState>>

vars == <<prog, pc, img, tile_size, scale, y, x, out_shape, output, calls, tiles, ret,
          device, model_dev, allocs, others>>

\* a model call on the tile of shape (h, w) at (y, x) of the input, with its outcome
Call(ty, tx, th, tw, dev, outcome) ==
    [y |-> ty, x |-> tx, h |-> th, w |-> tw, dev |-> dev, outcome |-> outcome]

\* a tile visited by a loop: how its region of the output was written
\* ("skipped", "model", "lanczos") and the outcome of its model call
Tile(ty, tx, th, tw, outcome, placed) ==
    [y |-> ty, x |-> tx, h |-> th, w |-> tw, outcome |-> outcome, placed |-> placed]

Raised(cs) == Cardinality({i \in 1..Len(cs) : cs[i].outcome # "ok"})

\* the outcomes a model call may have while failures are left
Outcomes(cs, failures) == IF Raised(cs) < MaxFailures THEN {"ok"} \cup failures ELSE {"ok"}

\* the value a routine returned: the assembled output array ("output") or
\* the output of the model call calls[call] ("call")
NoReturn == [kind |-> "none", call |-> 0]
ReturnOutput == [kind |-> "output", call |-> 0]
ReturnCall(i) == [kind |-> "call", call |-> i]

\* no run has finished yet
NoRun == [img |-> [h |-> 0, w |-> 0], t |-> 0, returned |-> FALSE, shape |-> <<>>,
          raster |-> <<>>]

\* the image files and what os.stat raises OSError for
Paths == {"/a.jpg"}
NoFile == [size |-> 0, mtime |-> 0]

\* a file that does not exist (or was not written yet)
Absent == [state |-> "absent", content |-> <<>>]

\* get_cached_data has not been called
NoCall == [n |-> 0, key |-> "", hit |-> FALSE, data |-> "", removed |-> FALSE]

\* no program started: nothing is known of its surroundings
NoEnv == [input_given |-> FALSE, input_exists |-> FALSE, input_readable |-> FALSE,
          scale_ok |-> FALSE, model_exists |-> FALSE, model_loads |-> FALSE,
          estimate |-> FALSE, confirmed |-> FALSE, work_ok |-> FALSE]

\* the image files of the directory tree: a.jpg and b.jpg are the same bytes,
\* c.jpg is another image of nearly the same size, d.png holds the bytes of
\* a.jpg under another extension, e.jpg is unlike the others, and l.jpg is a
\* symbolic link to a.jpg
ImagePaths == {"a.jpg", "b.jpg", "c.jpg", "d.png", "e.jpg", "l.jpg"}

\* no input video chosen yet
NoVideo == [frames |-> 0, interval |-> 0, workers |-> 0]

\* the temporary directory does not exist
NoDir == [exists |-> FALSE, files |-> <<>>]

\* Python's None for a frame
None == [kind |-> "none", frame |-> -1]

\* an object just constructed, no run made
Fresh ==
    /\ prog = "none"
    /\ pc = "idle"
    /\ img = [h |-> 0, w |-> 0]
    /\ tile_size = DefaultTileSize
    /\ scale = 0
    /\ y = 0
    /\ x = 0
    /\ out_shape = <<>>
    /\ output = <<>>
    /\ calls = <<>>
    /\ tiles = <<>>
    /\ ret = NoReturn
    /\ device = "none"
    /\ model_dev = "none"
    /\ allocs = <<>>
    /\ first_run = NoRun
    /\ runs_done = 0
    /\ frames = <<>>
    /\ batch_size = 0
    /\ bi = 0
    /\ results = <<>>
    /\ passes = <<>>
    /\ bpc = "idle"
    /\ batch_loading = FALSE
    /\ original_tile_size = 0
    /\ files = [p \in Paths |-> NoFile]
    /\ cache = <<>>
    /\ disk = Absent
    /\ tmp_file = Absent
    /\ save_pc = "idle"
    /\ reads = Absent
    /\ last = NoCall
    /\ stored = <<>>
    /\ cache_ops = 0
    /\ cli = "none"
    /\ env = NoEnv
    /\ exit_status = -1
    /\ printed = {}
    /\ tile_arg = 0
    /\ vpc = "idle"
    /\ video = NoVideo
    /\ video_runs = 0
    /\ temp_dir = NoDir
    /\ resume_mode = FALSE
    /\ existing_frames = {}
    /\ key_frames = <<>>
    /\ processed_frames = {}
    /\ vi = 0
    /\ sent = <<>>
    /\ frame_idx = 0
    /\ last_upscaled = None
    /\ next_upscaled = None
    /\ current_next_idx = -1
    /\ written = <<>>
    /\ spc = "idle"
    /\ sub_videos = <<>>
    /\ skip_cached = FALSE
    /\ max_workers = 0
    /\ sub_cache = {}
    /\ to_download = <<>>
    /\ tasks = <<>>
    /\ collected = <<>>
    /\ sub_results = <<>>
    /\ dpc = "idle"
    /\ image_files = <<>>
    /\ mode = "none"
    /\ broken = "none"
    /\ present = ImagePaths
    /\ duplicates = <<>>

Init ==
    /\ Fresh
    /\ conv_unsupported = {}

\* the loops nested the other way round: columns outside, rows inside
NextTileColumnMajor(step, h, w) ==
    IF y + step < h
    THEN /\ y' = y + step
         /\ UNCHANGED <<x, pc>>
    ELSE IF x + step < w
    THEN /\ y' = 0
         /\ x' = x + step
         /\ UNCHANGED pc
    ELSE /\ pc' = "done"
         /\ UNCHANGED <<y, x>>

\* The end of one pass of  for y in range(0, h, step): for x in range(0, w, step)
\* (for the grid tilers: range(tiles_y), range(tiles_x), step 1).
NextTile(step, h, w) ==
    IF x + step < w
    THEN /\ x' = x + step
         /\ UNCHANGED <<y, pc>>
    ELSE IF y + step < h
    THEN /\ x' = 0
         /\ y' = y + step
         /\ UNCHANGED pc
    ELSE /\ pc' = "done"
         /\ UNCHANGED <<y, x>>

\* ------------------------------------- the overlapped tilers: shared steps

\* the tile end without the clip to the image bound
TileEndUnclipped(origin, t, bound) == origin + t

\* y_end = min(y + self.tile_size, h)
TileEnd(origin, t, bound) == Min(origin + t, bound)

\* the output allocated at the input's size
OutputShapeUnscaled(h, w, s) == <<h, w>>

\* output_h, output_w = h * scale, w * scale;  np.zeros((output_h, output_w, 3))
OutputShape(h, w, s) == <<h * s, w * s>>

\* the rectangle of raster[a:b, c:d] in an array of the given shape
\* (a, b, c, d >= 0) and its shape
SliceRect(a, b, c, d, shape) ==
    [r0 |-> Min(a, shape[1]), r1 |-> Max(Min(a, shape[1]), Min(b, shape[1])),
     c0 |-> Min(c, shape[2]), c1 |-> Max(Min(c, shape[2]), Min(d, shape[2]))]
RectShape(rect) == <<rect.r1 - rect.r0, rect.c1 - rect.c0>>

\* raster[a:b, c:d] = value of shape vshape: the log afterwards, or the
\* failure of the assignment (ValueError)
Assign(log, shape, a, b, c, d, vshape, kind, ty, tx) ==
    LET rect == SliceRect(a, b, c, d, shape)
    IN  IF Assignable(vshape, RectShape(rect))
        THEN [log |-> Append(log, Write(rect.r0, rect.r1, rect.c0, rect.c1, kind, ty, tx)),
              ok |-> TRUE]
        ELSE [log |-> log, ok |-> FALSE]

\* an except block that only logs the failure
FallbackLogOnly(log, shape, ty, tx, th, tw, s) == log

\* except Exception: the Lanczos resize of the raw tile, written to the
\* tile's rectangle of the output
Fallback(log, shape, ty, tx, th, tw, s) ==
    Assign(log, shape, ty * s, (ty + th) * s, tx * s, (tx + tw) * s,
           <<th * s, tw * s>>, "lanczos", ty, tx).log

\* ------------------------------ image_upscale_direct.py: CoreMLImageUpscaler

\* the size test with "and" for "or"
ImageTooSmallBoth(th, tw) == th < ImageMinTile /\ tw < ImageMinTile

\* if tile.shape[0] < 32 or tile.shape[1] < 32: continue
ImageTooSmall(th, tw) == th < ImageMinTile \/ tw < ImageMinTile

\* Top edge blending (lines 183-197) of the tile whose clipped model output
\* has shape (uh, uw) and goes to rows out_y.. of the output.
ImageTopBlend(log, shape, ty, tx, out_y, out_y_end, out_x, out_x_end, uh, uw, s) ==
    LET half == (ImageOverlap * s) \div 2
        blend_start == Max(0, out_y - half)
        blend_end == Min(out_y + half, shape[1])
        n == blend_end - blend_start
        \* upscaled_tile[blend_start - out_y:blend_end - out_y, c]
        src == <<SliceLen(blend_start - out_y, blend_end - out_y, uh), Channels>>
        \* output[blend_start:blend_end, out_x:out_x_end, c]
        dst == RectShape(SliceRect(blend_start, blend_end, out_x, out_x_end, shape))
        value == Broadcast(Broadcast(<<n>>, src), Broadcast(<<n>>, dst))
    IN  IF ty > 0 /\ out_y < shape[1] /\ blend_start < blend_end /\ blend_end <= out_y_end
        THEN IF uw >= 1
             THEN Assign(log, shape, blend_start, blend_end, out_x, out_x_end,
                         value, "blend", ty, tx)
             ELSE [log |-> log, ok |-> FALSE]
        ELSE [log |-> log, ok |-> TRUE]

\* Fill non-overlapping region (lines 215-228)
ImageFill(log, shape, ty, tx, out_y, out_y_end, out_x, out_x_end, uh, uw, s) ==
    LET half == (ImageOverlap * s) \div 2
        fill_y == out_y + (IF ty > 0 THEN half ELSE 0)
        fill_x == out_x + (IF tx > 0 THEN half ELSE 0)
        fill_y_end == Min(out_y_end, shape[1])
        fill_x_end == Min(out_x_end, shape[2])
        src == <<SliceLen(fill_y - out_y, fill_y_end - out_y, uh),
                 SliceLen(fill_x - out_x, fill_x_end - out_x, uw)>>
    IN  IF fill_y < fill_y_end /\ fill_x < fill_x_end
        THEN Assign(log, shape, fill_y, fill_y_end, fill_x, fill_x_end, src, "model", ty, tx)
        ELSE [log |-> log, ok |-> TRUE]

\* The try block (lines 154-228) once the model has returned the upscaled
\* tile of shape (th * s, tw * s): the output log afterwards, and whether the
\* block ran to its end (ok) or raised.
ImagePlace(log, shape, ty, tx, th, tw, s) ==
    LET out_y == ty * s
        out_x == tx * s
        \* Handle edge cases
        out_y_end == Min(out_y + th * s, shape[1])
        out_x_end == Min(out_x + tw * s, shape[2])
        uh == IF out_y + th * s > shape[1] THEN SliceLen(0, shape[1] - out_y, th * s) ELSE th * s
        uw == IF out_x + tw * s > shape[2] THEN SliceLen(0, shape[2] - out_x, tw * s) ELSE tw * s
        top == ImageTopBlend(log, shape, ty, tx, out_y, out_y_end, out_x, out_x_end, uh, uw, s)
    IN  IF ty = 0 /\ tx = 0
        THEN \* First tile - no blending needed
             Assign(log, shape, out_y, out_y_end, out_x, out_x_end, <<uh, uw>>, "model", ty, tx)
        ELSE IF ~top.ok
        THEN top
        ELSE IF tx > 0 /\ out_x < shape[2]
        THEN \* Left edge blending reads out_w, a name that is not defined: NameError
             [log |-> top.log, ok |-> FALSE]
        ELSE ImageFill(top.log, shape, ty, tx, out_y, out_y_end, out_x, out_x_end, uh, uw, s)

\* upscale_image_tiled(img, scale), lines 119-139: the direct call for an
\* image within one tile, else the allocation of the output
ImageBegin ==
    /\ pc = "idle"
    /\ \E run \in ImageRuns, s \in ImageScales, outcome \in Outcomes(calls, {"raise"}) :
         /\ prog' = "image"
         /\ img' = [h |-> run.h, w |-> run.w]
         /\ tile_size' = run.t
         /\ scale' = s
         /\ IF run.h <= run.t /\ run.w <= run.t
            THEN /\ calls' = Append(calls, Call(0, 0, run.h, run.w, "coreml", outcome))
                 /\ pc' = IF outcome = "ok" THEN "done" ELSE "raised"
                 /\ ret' = IF outcome = "ok" THEN ReturnCall(Len(calls) + 1) ELSE NoReturn
                 /\ UNCHANGED <<out_shape, output>>
            ELSE /\ out_shape' = OutputShape(run.h, run.w, s)
                 /\ output' = <<>>
                 \* range() with a step of 0 raises; with a negative step it is empty
                 /\ pc' = IF run.t - ImageOverlap = 0 THEN "raised"
                          ELSE IF run.t - ImageOverlap < 0 THEN "done" ELSE "loop"
                 /\ ret' = IF run.t - ImageOverlap < 0 THEN ReturnOutput ELSE NoReturn
                 /\ UNCHANGED calls
    /\ y' = 0
    /\ x' = 0
    /\ UNCHANGED <<tiles, device, model_dev, allocs>>
    /\ UNCHANGED others

\* one pass of the loop body, lines 143-237
ImageTile ==
    /\ prog = "image"
    /\ pc = "loop"
    /\ LET th == TileEnd(y, tile_size, img.h) - y
           tw == TileEnd(x, tile_size, img.w) - x
       IN  IF ImageTooSmall(th, tw)
           THEN /\ tiles' = Append(tiles, Tile(y, x, th, tw, "none", "skipped"))
                /\ UNCHANGED <<output, calls>>
           ELSE \E outcome \in Outcomes(calls, {"raise"}) :
                  LET placed == IF outcome = "ok"
                                THEN ImagePlace(output, out_shape, y, x, th, tw, scale)
                                ELSE [log |-> output, ok |-> FALSE]
                  IN  /\ calls' = Append(calls, Call(y, x, th, tw, "coreml", outcome))
                      /\ output' = IF placed.ok THEN placed.log
                                   ELSE Fallback(placed.log, out_shape, y, x, th, tw, scale)
                      /\ tiles' = Append(tiles, Tile(y, x, th, tw, outcome,
                                                     IF placed.ok THEN "model" ELSE "lanczos"))
    /\ NextTile(tile_size - ImageOverlap, img.h, img.w)
    /\ ret' = IF pc' = "done" THEN ReturnOutput ELSE NoReturn
    /\ UNCHANGED <<prog, img, tile_size, scale, out_shape, device, model_dev, allocs>>
    /\ UNCHANGED others

\* ------------------------------ video_upscale_direct.py: CoreMLVideoUpscaler

\* if tile.shape[0] < 16 or tile.shape[1] < 16: continue
VideoTooSmall(th, tw) == th < VideoMinTile \/ tw < VideoMinTile

\* The try block (lines 168-209) once the model has returned the upscaled
\* tile of shape (th * s, tw * s).
VideoPlace(log, shape, ty, tx, th, tw, s) ==
    LET out_y == ty * s
        out_x == tx * s
        out_y_end == Min(out_y + th * s, shape[1])
        out_x_end == Min(out_x + tw * s, shape[2])
        uh == IF out_y + th * s > shape[1] THEN SliceLen(0, shape[1] - out_y, th * s) ELSE th * s
        uw == IF out_x + tw * s > shape[2] THEN SliceLen(0, shape[2] - out_x, tw * s) ELSE tw * s
        output_h_region == Min(out_y_end - out_y, shape[1] - out_y)
        output_w_region == Min(out_x_end - out_x, shape[2] - out_x)
        place_h == Min(uh, output_h_region)
        place_w == Min(uw, output_w_region)
    IN  IF uh * uw * Channels > 0
        THEN IF ty = 0 /\ tx = 0
             THEN Assign(log, shape, out_y, out_y_end, out_x, out_x_end, <<uh, uw>>,
                         "model", ty, tx)
             ELSE IF uh > 0 /\ uw > 0 /\ output_h_region > 0 /\ output_w_region > 0
             THEN Assign(log, shape, out_y, out_y + place_h, out_x, out_x + place_w,
                         <<SliceLen(0, place_h, uh), SliceLen(0, place_w, uw)>>,
                         "model", ty, tx)
             ELSE [log |-> log, ok |-> TRUE]
        ELSE [log |-> log, ok |-> TRUE]

\* upscale_image_tiled(img), lines 143-153: the output is allocated and the
\* tile loop entered for every frame; the tile size is 1024 (lines 93, 234)
VideoBegin ==
    /\ pc = "idle"
    /\ \E frame \in VideoFrames :
         /\ prog' = "video"
         /\ img' = frame
         /\ tile_size' = DefaultTileSize
         /\ scale' = VideoScale
         /\ out_shape' = OutputShape(frame.h, frame.w, VideoScale)
    /\ output' = <<>>
    /\ pc' = "loop"
    /\ y' = 0
    /\ x' = 0
    /\ UNCHANGED <<calls, tiles, ret, device, model_dev, allocs>>
    /\ UNCHANGED others

\* one pass of the loop body, lines 157-218
VideoTile ==
    /\ prog = "video"
    /\ pc = "loop"
    /\ LET th == TileEnd(y, tile_size, img.h) - y
           tw == TileEnd(x, tile_size, img.w) - x
       IN  IF VideoTooSmall(th, tw)
           THEN /\ tiles' = Append(tiles, Tile(y, x, th, tw, "none", "skipped"))
                /\ UNCHANGED <<output, calls>>
           ELSE \E outcome \in Outcomes(calls, {"raise"}) :
                  LET placed == IF outcome = "ok"
                                THEN VideoPlace(output, out_shape, y, x, th, tw, scale)
                                ELSE [log |-> output, ok |-> FALSE]
                  IN  /\ calls' = Append(calls, Call(y, x, th, tw, "coreml", outcome))
                      /\ output' = IF placed.ok THEN placed.log
                                   ELSE Fallback(placed.log, out_shape, y, x, th, tw, scale)
                      /\ tiles' = Append(tiles, Tile(y, x, th, tw, outcome,
                                                     IF placed.ok THEN "model" ELSE "lanczos"))
    /\ NextTile(tile_size - VideoOverlap, img.h, img.w)
    /\ ret' = IF pc' = "done" THEN ReturnOutput ELSE NoReturn
    /\ UNCHANGED <<prog, img, tile_size, scale, out_shape, device, model_dev, allocs>>
    /\ UNCHANGED others

\* ------------------------------------- utils.py: BaseImageInference

\* max_reasonable_size (GB) of inference_tiled, lines 370-375
MaxReasonableSize(dev) == IF dev = "mps" THEN 4 ELSE IF dev = "cuda" THEN 8 ELSE 2

\* output_size_gb > max_reasonable_size, for a float32 output of shape
\* (1, 3, oh, ow): elements * 4 / 1024**3 > limit, computed without a
\* product beyond 2^31: with pixels = q * unit + r the element count
\* Channels * pixels is (Channels * q) * unit + Channels * r
TooLarge(oh, ow, dev) ==
    LET pixels == oh * ow
        unit == 268435456  \* 1024**3 / 4
        q == pixels \div unit
        r == pixels % unit
        whole == Channels * q + (Channels * r) \div unit
        rest == (Channels * r) % unit
    IN  \/ whole > MaxReasonableSize(dev)
        \/ (whole = MaxReasonableSize(dev) /\ rest > 0)

\* the tile count rounded down
TileCountFloor(extent, t) == extent \div t

\* tiles_x = math.ceil(width / tile_size)
TileCount(extent, t) == CeilDiv(extent, t)

\* the tiling test with >= for >
UseTilingInclusive(h, w, t) == t > 0 /\ (h >= t \/ w >= t)

\* if tile_size > 0 and (h > tile_size or w > tile_size)   (line 337)
UseTiling(h, w, t) == t > 0 /\ (h > t \/ w > t)

\* the slice assignment of one grid tile's output (of shape (th * s, tw * s))
\* to rows start_y * s .. end_y * s, columns start_x * s .. end_x * s
GridPlace(log, shape, start_y, end_y, start_x, end_x, s, kind) ==
    Assign(log, shape, start_y * s, end_y * s, start_x * s, end_x * s,
           <<(end_y - start_y) * s, (end_x - start_x) * s>>, kind, start_y, start_x)

\* the placement with the origin of the rectangle left unscaled
StreamPlaceUnscaledOrigin(log, shape, start_y, start_x, th, tw, s) ==
    Assign(log, shape, start_y, start_y + th * s, start_x, start_x + tw * s,
           <<th * s, tw * s>>, "model8", start_y, start_x)

\* inference_streaming, lines 482-497: the output of the tile cut at
\* (start_y, start_x), of shape (out_h, out_w) = (th * s, tw * s), goes to rows
\* out_start_y .. out_start_y + out_h, columns out_start_x .. out_start_x + out_w
StreamPlace(log, shape, start_y, start_x, th, tw, s) ==
    Assign(log, shape, start_y * s, start_y * s + th * s, start_x * s, start_x * s + tw * s,
           <<th * s, tw * s>>, "model8", start_y, start_x)

\* run_inference(input_tensor, tile_size), lines 330-355, with the prelude
\* of inference_tiled (357-402) or inference_streaming (436-454) when the
\* input is tiled
BaseBegin ==
    /\ pc = "idle"
    /\ \E run \in BaseRuns,
          s \in (IF scale = 0 THEN BaseScales ELSE {scale}),
          dev \in (IF device = "none" THEN Devices ELSE {device}),
          outcome \in Outcomes(calls, {"conv", "raise"}), alloc_ok \in BOOLEAN :
         LET first == Call(0, 0, run.h, run.w, dev, outcome)
             oshape == OutputShape(run.h, run.w, s)
         IN  /\ img' = [h |-> run.h, w |-> run.w]
             /\ tile_size' = run.t
             /\ scale' = s
             /\ IF UseTiling(run.h, run.w, run.t)
                THEN IF TooLarge(oshape[1], oshape[2], dev)
                     THEN \* inference_streaming: the output is a numpy array on the host
                          /\ prog' = "streaming"
                          /\ pc' = "loop"
                          /\ out_shape' = oshape
                          /\ allocs' = Append(allocs, [dev |-> "host", shape |-> oshape])
                          /\ device' = dev
                          /\ model_dev' = dev
                          /\ UNCHANGED <<calls, ret>>
                     ELSE \* torch.zeros(output_shape, device=self.device) may raise
                          /\ prog' = "tiled"
                          /\ pc' = IF alloc_ok THEN "loop" ELSE "raised"
                          /\ out_shape' = IF alloc_ok THEN oshape ELSE <<>>
                          /\ allocs' = IF alloc_ok
                                       THEN Append(allocs, [dev |-> dev, shape |-> oshape])
                                       ELSE allocs
                          /\ device' = dev
                          /\ model_dev' = dev
                          /\ UNCHANGED <<calls, ret>>
                ELSE /\ prog' = "direct"
                     /\ UNCHANGED <<out_shape, allocs>>
                     /\ IF outcome = "conv" /\ dev = "mps"
                        THEN \* MPS convolution not supported: once more on the CPU
                             \E second \in Outcomes(<<first>>, {"raise"}) :
                               /\ calls' = <<first, Call(0, 0, run.h, run.w, "cpu", second)>>
                               /\ device' = "cpu"
                               /\ model_dev' = "cpu"
                               /\ pc' = IF second = "ok" THEN "done" ELSE "raised"
                               /\ ret' = IF second = "ok" THEN ReturnCall(2) ELSE NoReturn
                        ELSE /\ calls' = <<first>>
                             /\ device' = dev
                             /\ model_dev' = dev
                             /\ pc' = IF outcome = "ok" THEN "done" ELSE "raised"
                             /\ ret' = IF outcome = "ok" THEN ReturnCall(1) ELSE NoReturn
    /\ y' = 0
    /\ x' = 0
    /\ output' = <<>>
    /\ UNCHANGED tiles
    /\ UNCHANGED others

\* one pass of the loop body of inference_tiled, lines 407-432: nothing
\* catches what the model raises
TiledTile ==
    /\ prog = "tiled"
    /\ pc = "loop"
    /\ \E outcome \in Outcomes(calls, {"raise"}) :
         LET start_x == x * tile_size
             start_y == y * tile_size
             end_x == Min(start_x + tile_size, img.w)
             end_y == Min(start_y + tile_size, img.h)
             placed == GridPlace(output, out_shape, start_y, end_y, start_x, end_x,
                                 scale, "model")
         IN  /\ calls' = Append(calls, Call(start_y, start_x, end_y - start_y,
                                            end_x - start_x, device, outcome))
             /\ IF outcome = "ok" /\ placed.ok
                THEN /\ output' = placed.log
                     /\ tiles' = Append(tiles, Tile(start_y, start_x, end_y - start_y,
                                                    end_x - start_x, outcome, "model"))
                     /\ NextTile(1, TileCount(img.h, tile_size), TileCount(img.w, tile_size))
                ELSE /\ pc' = "raised"
                     /\ tiles' = Append(tiles, Tile(start_y, start_x, end_y - start_y,
                                                    end_x - start_x, outcome, "none"))
                     /\ UNCHANGED <<output, y, x>>
    /\ ret' = IF pc' = "done" THEN ReturnOutput ELSE NoReturn
    /\ UNCHANGED <<prog, img, tile_size, scale, out_shape, device, model_dev, allocs>>
    /\ UNCHANGED others

\* one pass of the loop body of inference_streaming, lines 459-502: a
\* RuntimeError "out of memory" is retried on the CPU, anything else is raised.
\* After the last tile (lines 504-509) the host array becomes a float tensor
\* of the whole output, which .to(self.device) puts on the device
StreamingTile ==
    /\ prog = "streaming"
    /\ pc = "loop"
    /\ \E outcome \in Outcomes(calls, {"oom", "raise"}) :
         LET start_x == x * tile_size
             start_y == y * tile_size
             end_x == Min(start_x + tile_size, img.w)
             end_y == Min(start_y + tile_size, img.h)
             first == Call(start_y, start_x, end_y - start_y, end_x - start_x,
                           model_dev, outcome)
             placed == StreamPlace(output, out_shape, start_y, start_x,
                                   end_y - start_y, end_x - start_x, scale)
         IN  \E second \in Outcomes(Append(calls, first), {"raise"}) :
               LET retried == outcome = "oom"
                   good == IF retried THEN second = "ok" ELSE outcome = "ok"
               IN  /\ calls' = IF retried
                               THEN calls \o <<first, Call(start_y, start_x, end_y - start_y,
                                                           end_x - start_x, "cpu", second)>>
                               ELSE Append(calls, first)
                   \* model_cpu = self.model.cpu() moves the model; it is moved
                   \* back only after the retry has returned
                   /\ model_dev' = IF retried /\ ~good THEN "cpu" ELSE model_dev
                   /\ IF good /\ placed.ok
                      THEN /\ output' = placed.log
                           /\ tiles' = Append(tiles, Tile(start_y, start_x, end_y - start_y,
                                                          end_x - start_x, outcome,
                                                          IF retried THEN "cpu" ELSE "model"))
                           /\ NextTile(1, TileCount(img.h, tile_size),
                                       TileCount(img.w, tile_size))
                      ELSE /\ pc' = "raised"
                           /\ tiles' = Append(tiles, Tile(start_y, start_x, end_y - start_y,
                                                          end_x - start_x, outcome, "none"))
                           /\ UNCHANGED <<output, y, x>>
    /\ ret' = IF pc' = "done" THEN ReturnOutput ELSE NoReturn
    /\ allocs' = IF pc' = "done"
                 THEN Append(allocs, [dev |-> device, shape |-> out_shape])
                 ELSE allocs
    /\ UNCHANGED <<prog, img, tile_size, scale, out_shape, device>>
    /\ UNCHANGED others

\* ------------------------------------- coreml_inference.py: CoreMLInference

\* _get_optimal_tile_size(image_shape), lines 203-214
GetOptimalTileSize(h, w) ==
    IF h * w > 2048 * 2048 THEN 256
    ELSE IF h * w > 1024 * 1024 THEN 512
    ELSE 1024

\* if total_pixels > 512*512 or (tile_size and tile_size < min(height, width))
CoreMLUseTiling(h, w, t) == h * w > 512 * 512 \/ (t # 0 /\ t < Min(h, w))

\* upscale_image(input_path, output_path, tile_size), lines 288-317, with the
\* prelude of _process_tiled_inference (216-238): whatever is raised is
\* caught at the end of upscale_image, which prints it and saves nothing
CoreMLBegin ==
    /\ pc = "idle"
    /\ \E run \in CoreMLRuns, s \in CoreMLScales, outcome \in Outcomes(calls, {"raise"}) :
         /\ img' = [h |-> run.h, w |-> run.w]
         /\ scale' = s
         /\ tile_arg' = run.t
         /\ IF CoreMLUseTiling(run.h, run.w, run.t)
            THEN /\ prog' = "coreml"
                 /\ tile_size' = GetOptimalTileSize(run.h, run.w)
                 /\ out_shape' = OutputShape(run.h, run.w, s)
                 /\ pc' = "loop"
                 /\ UNCHANGED <<calls, ret>>
            ELSE /\ prog' = "coreml_direct"
                 /\ tile_size' = run.t
                 /\ calls' = Append(calls, Call(0, 0, run.h, run.w, "coreml", outcome))
                 /\ pc' = IF outcome = "ok" THEN "done" ELSE "raised"
                 /\ ret' = IF outcome = "ok" THEN ReturnCall(Len(calls) + 1) ELSE NoReturn
                 /\ UNCHANGED out_shape
    /\ y' = 0
    /\ x' = 0
    /\ output' = <<>>
    /\ UNCHANGED <<tiles, device, model_dev, allocs>>
    /\ UNCHANGED <<runState, batchState, cacheState, cliState, videoState, subState,
                   dupState>>

\* one pass of the loop body of _process_tiled_inference, lines 242-271:
\* nothing in the loop catches what model.predict raises
CoreMLTile ==
    /\ prog = "coreml"
    /\ pc = "loop"
    /\ \E outcome \in Outcomes(calls, {"raise"}) :
         LET start_x == x * tile_size
             start_y == y * tile_size
             end_x == Min(start_x + tile_size, img.w)
             end_y == Min(start_y + tile_size, img.h)
             placed == GridPlace(output, out_shape, start_y, end_y, start_x, end_x,
                                 scale, "model")
         IN  /\ calls' = Append(calls, Call(start_y, start_x, end_y - start_y,
                                            end_x - start_x, "coreml", outcome))
             /\ IF outcome = "ok" /\ placed.ok
                THEN /\ output' = placed.log
                     /\ tiles' = Append(tiles, Tile(start_y, start_x, end_y - start_y,
                                                    end_x - start_x, outcome, "model"))
                     /\ NextTile(1, TileCount(img.h, tile_size), TileCount(img.w, tile_size))
                ELSE /\ pc' = "raised"
                     /\ tiles' = Append(tiles, Tile(start_y, start_x, end_y - start_y,
                                                    end_x - start_x, outcome, "none"))
                     /\ UNCHANGED <<output, y, x>>
    /\ ret' = IF pc' = "done" THEN ReturnOutput ELSE NoReturn
    /\ UNCHANGED <<prog, img, tile_size, scale, out_shape, device, model_dev, allocs>>
    /\ UNCHANGED others

Next ==
    \/ ImageBegin
    \/ ImageTile
    \/ VideoBegin
    \/ VideoTile
    \/ BaseBegin
    \/ TiledTile
    \/ StreamingTile
    \/ CoreMLBegin
    \/ CoreMLTile

Spec == Init /\ [][Next]_vars

\* ----------------------------------------------------- reading the results

\* shape of what a model call returns: the model upscales its input by s
ModelOutShape(call, s) == <<call.h * s, call.w * s>>

\* shape of the raster the routine returned
RetShape ==
    IF ret.kind = "call" THEN ModelOutShape(calls[ret.call], scale)
    ELSE IF ret.kind = "output" THEN out_shape
    ELSE <<>>

\* a model call on the whole input
WholeImage(call) == call.y = 0 /\ call.x = 0 /\ call.h = img.h /\ call.w = img.w

\* the rows and columns at which the covering assignments of a pixel can change
EdgeRows(log, shape) ==
    {r \in {0} \cup {log[i].r0 : i \in 1..Len(log)} \cup {log[i].r1 : i \in 1..Len(log)} :
        r < shape[1]}
EdgeCols(log, shape) ==
    {c \in {0} \cup {log[i].c0 : i \in 1..Len(log)} \cup {log[i].c1 : i \in 1..Len(log)} :
        c < shape[2]}

\* the routine is one of the overlapped tilers and took the tiled path
Overlapped == prog \in {"image", "video"} /\ out_shape # <<>>
OverlapOf(p) == IF p = "image" THEN ImageOverlap ELSE VideoOverlap
MinTileOf(p) == IF p = "image" THEN ImageMinTile ELSE VideoMinTile

\* ------------------------------------------------------------------ C1

\* C1 (as stated): an image or tensor with H <= T and W <= T is processed by
\* CoreMLImageUpscaler.upscale_image_tiled and BaseImageInference.run_inference
\* with exactly one model call, on the whole image, whose output (H*S x W*S)
\* is returned, and the tile loop is not entered.
C1_AsStated ==
    (prog \in {"image", "direct", "tiled", "streaming"} /\ pc = "done"
        /\ img.h <= tile_size /\ img.w <= tile_size)
    => /\ Len(calls) = 1
       /\ WholeImage(calls[1])
       /\ ret = ReturnCall(1)
       /\ tiles = <<>>

\* C1 (amended): such an input is never tiled; every model call is on the
\* whole image; the value returned is the output of the last call, which is
\* the only one that returned, and has shape (H*S, W*S); there is one call,
\* or two when run_inference runs on MPS, the first call raised the
\* convolution NotImplementedError and the call was repeated on the CPU.
C1_DirectInference ==
    (prog \in {"image", "direct", "tiled", "streaming"} /\ pc = "done"
        /\ img.h <= tile_size /\ img.w <= tile_size)
    => /\ tiles = <<>>
       /\ out_shape = <<>>
       /\ Len(calls) >= 1
       /\ \A i \in 1..Len(calls) : WholeImage(calls[i])
       /\ \A i \in 1..Len(calls) : calls[i].outcome = "ok" <=> i = Len(calls)
       /\ ret = ReturnCall(Len(calls))
       /\ RetShape = <<img.h * scale, img.w * scale>>
       /\ \/ Len(calls) = 1
          \/ /\ Len(calls) = 2
             /\ prog = "direct"
             /\ calls[1].outcome = "conv"
             /\ calls[1].dev = "mps"
             /\ calls[2].dev = "cpu"

C1_Witness ==
    /\ prog = "direct"
    /\ pc = "done"
    /\ img.h <= tile_size /\ img.w <= tile_size
    /\ Len(calls) = 2
    /\ ret = ReturnCall(2)

\* ------------------------------------------------------------------ C2

\* C2: CoreMLVideoUpscaler.upscale_image_tiled upscales a frame with H <= T
\* and W <= T (and not below the minimum tile) with exactly one model call,
\* which covers the whole frame: no second tile goes to the model.
C2_VideoSingleCall ==
    (prog = "video" /\ img.h <= tile_size /\ img.w <= tile_size
        /\ img.h >= VideoMinTile /\ img.w >= VideoMinTile)
    => /\ \A i \in 1..Len(calls) : i = 1 /\ WholeImage(calls[i])
       /\ pc = "done" => Len(calls) = 1

\* ------------------------------------------------------------------ C3

\* C3: when tiled inference (image and video upscale_image_tiled,
\* inference_tiled and the streaming mode it delegates to) returns for an
\* input with H > T or W > T and T > overlap, the raster it returns has
\* exactly H*S rows and W*S columns, whatever tiles succeeded, failed or were
\* skipped, and no assignment reached outside it.
C3_OutputShape ==
    (prog \in {"image", "video", "tiled", "streaming"} /\ pc = "done"
        /\ (img.h > tile_size \/ img.w > tile_size)
        /\ (prog \in {"image", "video"} => tile_size > OverlapOf(prog)))
    => /\ ret = ReturnOutput
       /\ RetShape = <<img.h * scale, img.w * scale>>
       /\ \A i \in 1..Len(output) :
            output[i].r1 <= img.h * scale /\ output[i].c1 <= img.w * scale

C3_Witness ==
    /\ prog = "image"
    /\ pc = "done"
    /\ img.h > tile_size
    /\ \E i \in 1..Len(tiles) : tiles[i].placed = "skipped"
    /\ \E i \in 1..Len(tiles) : tiles[i].outcome = "raise"
    /\ \E i \in 1..Len(tiles) : tiles[i].placed = "model"

\* ------------------------------------------------------------------ C4

\* the tile grid of an overlapped tiler, in loop order
GridOrigins(h, w, step) ==
    [k \in 1..(RangeLen(h, step) * RangeLen(w, step)) |->
        <<((k - 1) \div RangeLen(w, step)) * step, ((k - 1) % RangeLen(w, step)) * step>>]

\* C4: in the overlapped tilers the tiles visited are exactly those with
\* origins at the multiples of (T - O) inside the image, each spanning from
\* its origin to min(origin + T, bound): ceil(H/(T-O)) rows of ceil(W/(T-O))
\* tiles, none larger than T or reaching outside the image; the 2000x1500
\* image with T = 512, O = 64, S = 4 has a 5 x 4 grid and an 8000x6000 output.
C4_TileGrid ==
    Overlapped =>
      LET step == tile_size - OverlapOf(prog)
          grid == GridOrigins(img.h, img.w, step)
      IN  /\ Len(tiles) <= Len(grid)
          /\ pc = "done" => Len(tiles) = Len(grid)
          /\ Len(grid) = CeilDiv(img.h, step) * CeilDiv(img.w, step)
          /\ \A k \in 1..Len(tiles) :
               /\ <<tiles[k].y, tiles[k].x>> = grid[k]
               /\ tiles[k].h = Min(tile_size, img.h - tiles[k].y)
               /\ tiles[k].w = Min(tile_size, img.w - tiles[k].x)
               /\ tiles[k].h >= 1 /\ tiles[k].h <= tile_size
               /\ tiles[k].w >= 1 /\ tiles[k].w <= tile_size
               /\ tiles[k].y + tiles[k].h <= img.h
               /\ tiles[k].x + tiles[k].w <= img.w
          /\ (pc = "done" /\ img = [h |-> 1500, w |-> 2000] /\ tile_size = 512 /\ scale = 4)
               => /\ Len(tiles) = 5 * 4
                  /\ {tiles[k].x : k \in 1..Len(tiles)} = {0, 448, 896, 1344, 1792}
                  /\ {tiles[k].y : k \in 1..Len(tiles)} = {0, 448, 896, 1344}
                  /\ RetShape = <<6000, 8000>>

C4_Witness ==
    /\ prog = "image"
    /\ pc = "done"
    /\ img = [h |-> 1500, w |-> 2000]
    /\ tile_size = 512
    /\ scale = 4
    /\ Len(tiles) = 20

\* ------------------------------------------------------------------ C5

\* some pixel of the raster was never assigned
Unwritten(log, shape) ==
    \E r \in EdgeRows(log, shape), c \in EdgeCols(log, shape) : LastWrite(log, r, c) = 0

\* C5: when tiled upscaling of an image with H > T or W > T returns, every
\* pixel of the output has been written at least once (by a model tile or
\* by a resize fallback), the regions of skipped tiles included.
C5_NoZeroPixels ==
    (Overlapped /\ pc = "done" /\ (img.h > tile_size \/ img.w > tile_size))
    => ~Unwritten(output, out_shape)

\* ------------------------------------------------------------------ C6

\* C6: in the image upscaler every tile whose model call succeeds is written
\* from the model's result (blended in the overlap band for a non-origin
\* tile); the Lanczos fallback is used only for tiles whose model call failed.
C6_ModelTilesPlaced ==
    prog = "image" =>
      \A k \in 1..Len(tiles) :
        /\ tiles[k].outcome = "ok" => tiles[k].placed = "model"
        /\ tiles[k].placed = "lanczos" => tiles[k].outcome = "raise"

\* ------------------------------------------------------------------ C7

\* the pixels of the rectangle of tile t that stand for all its pixels
TilePixels(t, log, shape, s) ==
    {p \in EdgeRows(log, shape) \X EdgeCols(log, shape) :
        /\ t.y * s <= p[1] /\ p[1] < (t.y + t.h) * s
        /\ t.x * s <= p[2] /\ p[2] < (t.x + t.w) * s}

\* pixel p holds the Lanczos resize of tile t
HoldsFallback(log, p, t) ==
    LET i == LastWrite(log, p[1], p[2])
    IN  i # 0 /\ log[i].kind = "lanczos" /\ log[i].ty = t.y /\ log[i].tx = t.x

\* C7 (as stated): when the model raises on some tiles, upscale_image_tiled
\* (image, video) does not raise, visits every tile, and on return the output
\* rectangle of each failing tile holds the Lanczos resize of the raw tile.
C7_AsStated ==
    Overlapped =>
      /\ pc # "raised"
      /\ pc = "done" =>
           \A k \in 1..Len(tiles) :
             tiles[k].outcome = "raise" =>
               \A p \in TilePixels(tiles[k], output, out_shape, scale) :
                 HoldsFallback(output, p, tiles[k])

\* C7 (amended): the operation does not raise and visits every tile of the
\* grid; when a failing tile has been handled its whole output rectangle
\* holds the Lanczos resize of the raw tile; afterwards a pixel of that
\* rectangle holds it until a later tile, whose rectangle overlaps it,
\* writes the pixel.
C7_FallbackContinues ==
    Overlapped =>
      /\ pc # "raised"
      /\ pc = "done" =>
           Len(tiles) = RangeLen(img.h, tile_size - OverlapOf(prog))
                          * RangeLen(img.w, tile_size - OverlapOf(prog))
      /\ \A k \in 1..Len(tiles) :
           tiles[k].outcome = "raise" =>
             /\ TilePixels(tiles[k], output, out_shape, scale) # {}
             /\ \A p \in TilePixels(tiles[k], output, out_shape, scale) :
                  \/ HoldsFallback(output, p, tiles[k])
                  \/ \E j \in (k + 1)..Len(tiles) :
                       LET i == LastWrite(output, p[1], p[2])
                       IN  /\ i # 0
                           /\ output[i].ty = tiles[j].y /\ output[i].tx = tiles[j].x
                           /\ p \in TilePixels(tiles[j], output, out_shape, scale)
             /\ k = Len(tiles) =>
                  \A p \in TilePixels(tiles[k], output, out_shape, scale) :
                    HoldsFallback(output, p, tiles[k])

C7_Witness ==
    /\ prog = "video"
    /\ pc = "done"
    /\ Len(tiles) = 4
    /\ tiles[1].outcome = "raise"
    /\ tiles[2].outcome = "ok"
    /\ tiles[4].outcome = "raise"

\* ------------------------------------------------------------------ C8

\* C8: in inference_tiled, inference_streaming and _process_tiled_inference
\* a model exception on a tile is caught and the run goes on with the
\* remaining tiles: the run never ends raising because of a tile.
C8_TileFailureCaught ==
    (prog \in {"tiled", "streaming", "coreml"}
        /\ \E i \in 1..Len(calls) : calls[i].outcome # "ok")
    => pc # "raised"

\* ------------------------------------------------------------------ C9

\* C9: in the tiled path of the image upscaler (minimum 32) and the video
\* upscaler (minimum 16) the model is never called on a tile whose height or
\* width is below the minimum.
C9_NoSmallTileToModel ==
    Overlapped =>
      \A i \in 1..Len(calls) :
        calls[i].h >= MinTileOf(prog) /\ calls[i].w >= MinTileOf(prog)

C9_Witness ==
    /\ Overlapped
    /\ pc = "done"
    /\ Len(calls) > 0
    /\ \E k \in 1..Len(tiles) :
         tiles[k].placed = "skipped" /\ tiles[k].h < MinTileOf(prog) /\ tiles[k].w >= MinTileOf(prog)

\* ------------------------------------------------------------------ C10

\* What the pixel (r, c) of an assignment holds when the model is pointwise
\* (the s x s output block of a pixel depends on that input pixel only): the
\* element (r - r0, c - c0) of the model's output for the tile cut from the
\* input at (ty, tx), which is the block element (dr, dc) of the input pixel
\* (row, col).
WriteSource(wr, r, c, s) ==
    [row |-> wr.ty + (r - wr.r0) \div s, col |-> wr.tx + (c - wr.c0) \div s,
     dr |-> (r - wr.r0) % s, dc |-> (c - wr.c0) % s, kind |-> wr.kind]

\* what the pixel (r, c) of a raster holds
PixelSource(log, r, c, s) ==
    IF LastWrite(log, r, c) = 0
    THEN [row |-> -1, col |-> -1, dr |-> 0, dc |-> 0, kind |-> "zero"]
    ELSE WriteSource(log[LastWrite(log, r, c)], r, c, s)

\* what the pixel (r, c) of one model call on the whole image holds
WholeSource(r, c, s) ==
    [row |-> r \div s, col |-> c \div s, dr |-> r % s, dc |-> c % s, kind |-> "model"]

\* Every row at the edge columns and every column at the edge rows.  The
\* source row of a pixel depends on its row and on the assignment that wrote
\* it, which is the same along the columns between two edges (and likewise
\* for the source column), so these pixels decide the equality for all.
CrossPixels(log, shape) ==
    ((0..(shape[1] - 1)) \X EdgeCols(log, shape))
        \cup (EdgeRows(log, shape) \X (0..(shape[2] - 1)))

RowMajor(ny, nx, step) ==
    [k \in 1..(ny * nx) |-> <<((k - 1) \div nx) * step, ((k - 1) % nx) * step>>]

\* the tile origins of the routine that runs, in row-major order
LoopOrigins(p, h, w, t) ==
    IF p \in {"image", "video"}
    THEN RowMajor(RangeLen(h, t - OverlapOf(p)), RangeLen(w, t - OverlapOf(p)),
                  t - OverlapOf(p))
    ELSE RowMajor(TileCount(h, t), TileCount(w, t), t)

\* position (y1, x1) comes before (y2, x2) in row-major order
RowMajorBefore(y1, x1, y2, x2) == y1 < y2 \/ (y1 = y2 /\ x1 < x2)

\* the k-th tile visited is the k-th tile of the grid in row-major order, and
\* the assignments to the output are in that order too
VisitedInRowMajorOrder(p, shape, ts, log) ==
    /\ \A k \in 1..Len(ts) :
         /\ k <= Len(LoopOrigins(p, shape.h, shape.w, tile_size))
         /\ <<ts[k].y, ts[k].x>> = LoopOrigins(p, shape.h, shape.w, tile_size)[k]
    /\ \A i, j \in 1..Len(log) :
         i < j => ~RowMajorBefore(log[j].ty, log[j].tx, log[i].ty, log[i].tx)

ConvShapes == {<<400, 300>>, <<2048, 2048>>}

\* the outcome of the deterministic model on the input of a call
ModelOutcome(call, direct) ==
    IF call.dev = "mps" /\ <<call.h, call.w>> \in conv_unsupported
    THEN IF direct THEN "conv" ELSE "raise"
    ELSE "ok"

\* every call of the run had the outcome the deterministic model gives it
DeterministicModel ==
    \A k \in 1..Len(calls) : calls[k].outcome = ModelOutcome(calls[k], prog = "direct")

\* the raster a finished run returned, as the assignments that make it: the
\* output of a direct call is one assignment of the whole model output
RunRaster ==
    IF ret.kind = "call"
    THEN <<Write(0, img.h * scale, 0, img.w * scale, "model", 0, 0)>>
    ELSE IF ret.kind = "output" THEN output
    ELSE <<>>

\* what is kept of a finished run
RunRecord ==
    [img |-> img, t |-> tile_size, returned |-> pc = "done", shape |-> RetShape,
     raster |-> RunRaster]

\* an inference object is built around a deterministic model
RunsInit ==
    /\ Fresh
    /\ conv_unsupported \in SUBSET ConvShapes

\* run_inference on the object, a call of the deterministic model
RunsBegin == BaseBegin /\ DeterministicModel'
RunsTiledTile == TiledTile /\ DeterministicModel'
RunsStreamingTile == StreamingTile /\ DeterministicModel'

\* the run has ended and the object is used for the next image: the model,
\* self.device and the scale factor stay what the last run left
NextRun ==
    /\ pc \in {"done", "raised"}
    /\ prog \in {"direct", "tiled", "streaming"}
    /\ model_dev = device
    /\ runs_done < MaxRuns - 1
    /\ runs_done' = runs_done + 1
    /\ first_run' = IF runs_done = 0 THEN RunRecord ELSE first_run
    /\ prog' = "none"
    /\ pc' = "idle"
    /\ out_shape' = <<>>
    /\ output' = <<>>
    /\ calls' = <<>>
    /\ tiles' = <<>>
    /\ ret' = NoReturn
    /\ allocs' = <<>>
    /\ y' = 0
    /\ x' = 0
    /\ UNCHANGED <<img, tile_size, scale, device, model_dev, conv_unsupported>>
    /\ UNCHANGED <<batchState, cacheState, cliState, tile_arg, videoState, subState, dupState>>

RunsNext ==
    \/ RunsBegin
    \/ RunsTiledTile
    \/ RunsStreamingTile
    \/ NextRun

SpecRuns == RunsInit /\ [][RunsNext]_vars

\* two rasters of scale s, given as their assignments, hold the same pixels
SameRaster(log1, shape1, log2, shape2, s) ==
    /\ shape1 = shape2
    /\ \A r \in EdgeRows(log1, shape1) \cup EdgeRows(log2, shape2),
          c \in EdgeCols(log1, shape1) \cup EdgeCols(log2, shape2) :
         PixelSource(log1, r, c, s) = PixelSource(log2, r, c, s)

\* C12: a run of tiled inference that returns, on an object that has
\* processed other images before, returns the raster that the object's first
\* run on the same image with the same tile size (and the same deterministic
\* model) returned.
C12_SameOutputEveryRun ==
    (/\ pc = "done"
     /\ runs_done >= 1
     /\ first_run.returned
     /\ first_run.img = img
     /\ first_run.t = tile_size
     /\ UseTiling(img.h, img.w, tile_size))
    => SameRaster(RunRaster, RetShape, first_run.raster, first_run.shape, scale)

\* ---------------- video_upscale_direct.py: upscale_batch_direct

\* the state of a tiler run
tilerRun == <<prog, pc, img, scale, y, x, out_shape, output, calls, tiles, ret,
              device, model_dev, allocs>>

\* the lists of frames (their shapes) and the batch sizes tried
FrameLists ==
    LET a == [h |-> 480, w |-> 640]
        b == [h |-> 720, w |-> 1280]
        c == [h |-> 1080, w |-> 1920]
        d == [h |-> 1280, w |-> 720]
    IN  {<<>>, <<a>>, <<a, a>>, <<a, b>>, <<b, b, b>>, <<c, c>>, <<d, d>>,
         <<a, b, a, b>>, <<a, a, b, a, a>>}
BatchSizes == {1, 2, 4}

\* one operation: a predict on stacked frames ("batch"), a pass of
\* upscale_image_tiled on a frame ("tiled"), a cv2.resize ("lanczos") or the
\* preprocessing and stacking of the frames ("stack", logged when it raises),
\* on the frames of the given indices
Pass(kind, fs, outcome) == [kind |-> kind, frames |-> fs, outcome |-> outcome]

\* an element of results: the frame it was made from, how, by which
\* operation and (for a batch call) from which slice of its output
Result(frame, how, pass, slice) ==
    [frame |-> frame, how |-> how, pass |-> pass, slice |-> slice]

\* frames[i:i + batch_size], as indices (from 1) into frames
BatchIndices(i, size, n) == [k \in 1..(Min(i + size, n) - i) |-> i + k]

\* the first position at which an outcome is "raise"; 0 if there is none
FirstRaise(f) ==
    IF \A k \in DOMAIN f : f[k] = "ok" THEN 0
    ELSE CHOOSE k \in DOMAIN f : f[k] = "raise" /\ \A j \in 1..(k - 1) : f[j] = "ok"

\* for frame in frames: upscale_image_tiled(frame), up to the first pass
\* that raises
TiledPasses(idx, f) ==
    [k \in 1..(IF FirstRaise(f) = 0 THEN Len(idx) ELSE FirstRaise(f)) |->
        Pass("tiled", <<idx[k]>>, f[k])]

\* the results of the first n of the passes made after `base` operations
TiledResults(idx, n, base) == [k \in 1..n |-> Result(idx[k], "tiled", base + k, 0)]

\* tiling for every batch
UseBatchTilingAlways(h, w) == TRUE

\* use_tiling = h > 720 or w > 1280
UseBatchTiling(h, w) == h > 720 \/ w > 1280

\* _upscale_batch_parallel(batch), lines 271-315: what it adds to the
\* operations, what it returns, and whether it returned
BatchParallel(idx, ps, pre_ok, batch_ok, f) ==
    LET n == Len(idx)
        tiled(base) == [passes |-> base \o TiledPasses(idx, f),
                        results |-> IF FirstRaise(f) = 0
                                    THEN TiledResults(idx, n, Len(base)) ELSE <<>>,
                        ok |-> FirstRaise(f) = 0]
    IN  IF ~UseBatchTiling(frames[idx[1]].h, frames[idx[1]].w)
        THEN IF ~pre_ok
             THEN [passes |-> Append(ps, Pass("stack", idx, "raise")),
                   results |-> <<>>, ok |-> FALSE]
             ELSE IF batch_ok
             THEN [passes |-> Append(ps, Pass("batch", idx, "ok")),
                   results |-> [k \in 1..n |-> Result(idx[k], "batch", Len(ps) + 1, k)],
                   ok |-> TRUE]
             ELSE tiled(Append(ps, Pass("batch", idx, "raise")))
        ELSE tiled(ps)

\* the try block of the loop body, lines 241-253
BatchTry(idx, ps, rs, pre_ok, batch_ok, f) ==
    IF \A k \in 1..Len(idx) : frames[idx[k]] = frames[idx[1]]
    THEN LET par == BatchParallel(idx, ps, pre_ok, batch_ok, f)
         IN  [passes |-> par.passes, results |-> rs \o par.results, ok |-> par.ok]
    ELSE [passes |-> ps \o TiledPasses(idx, f),
          results |-> rs \o TiledResults(idx, IF FirstRaise(f) = 0 THEN Len(idx)
                                              ELSE FirstRaise(f) - 1, Len(ps)),
          ok |-> FirstRaise(f) = 0]

\* the except block, lines 255-265, from the k-th frame of the batch on: a
\* tiled pass for every frame, and the Lanczos resize of a frame whose pass
\* raised
RECURSIVE BatchExcept(_, _, _, _, _)
BatchExcept(k, idx, acc, f, l) ==
    IF k > Len(idx) THEN acc
    ELSE IF f[k] = "ok"
    THEN BatchExcept(k + 1, idx,
             [passes |-> Append(acc.passes, Pass("tiled", <<idx[k]>>, "ok")),
              results |-> Append(acc.results,
                                 Result(idx[k], "tiled", Len(acc.passes) + 1, 0)),
              ok |-> TRUE], f, l)
    ELSE IF l[k] = "ok"
    THEN BatchExcept(k + 1, idx,
             [passes |-> acc.passes \o <<Pass("tiled", <<idx[k]>>, "raise"),
                                         Pass("lanczos", <<idx[k]>>, "ok")>>,
              results |-> Append(acc.results,
                                 Result(idx[k], "lanczos", Len(acc.passes) + 2, 0)),
              ok |-> TRUE], f, l)
    ELSE [passes |-> acc.passes \o <<Pass("tiled", <<idx[k]>>, "raise"),
                                     Pass("lanczos", <<idx[k]>>, "raise")>>,
          results |-> acc.results,
          ok |-> FALSE]

\* the number of failures among the outcomes chosen for one batch
BatchFailures(pre_ok, batch_ok, f1, f2, l) ==
    (IF pre_ok THEN 0 ELSE 1) + (IF batch_ok THEN 0 ELSE 1)
    + Cardinality({k \in DOMAIN f1 : f1[k] = "raise"})
    + Cardinality({k \in DOMAIN f2 : f2[k] = "raise"})
    + Cardinality({k \in DOMAIN l : l[k] = "raise"})

\* upscale_batch_direct(frames, batch_size), lines 222-236
BatchBegin ==
    /\ bpc = "idle"
    /\ \E fs \in FrameLists, size \in BatchSizes, load_ok \in BOOLEAN :
         /\ frames' = fs
         /\ batch_size' = size
         /\ IF fs = <<>>
            THEN /\ bpc' = "done"
                 /\ UNCHANGED <<batch_loading, original_tile_size, tile_size>>
            ELSE IF ~load_ok
            THEN \* load_model raised: the flag stays set
                 /\ bpc' = "raised"
                 /\ batch_loading' = TRUE
                 /\ UNCHANGED <<original_tile_size, tile_size>>
            ELSE /\ bpc' = "loop"
                 /\ batch_loading' = FALSE
                 /\ original_tile_size' = tile_size
                 /\ tile_size' = DefaultTileSize
    /\ bi' = 0
    /\ results' = <<>>
    /\ passes' = <<>>
    /\ UNCHANGED <<tilerRun, runState, cacheState, cliState, tile_arg, videoState, subState, dupState>>

\* one pass of the loop over the batches, lines 238-265, and the end of the
\* function (267-269) after the last batch
BatchStep ==
    /\ bpc = "loop"
    /\ LET idx == BatchIndices(bi, batch_size, Len(frames))
           outcomes == [1..Len(idx) -> {"ok", "raise"}]
       IN  \E pre_ok, batch_ok \in BOOLEAN, f1, f2, l \in outcomes :
             /\ BatchFailures(pre_ok, batch_ok, f1, f2, l) <= MaxFailures
             /\ LET try == BatchTry(idx, passes, results, pre_ok, batch_ok, f1)
                    end == IF try.ok THEN try ELSE BatchExcept(1, idx, try, f2, l)
                IN  /\ passes' = end.passes
                    /\ results' = end.results
                    /\ IF ~end.ok
                       THEN /\ bpc' = "raised"
                            /\ UNCHANGED <<bi, tile_size>>
                       ELSE IF bi + batch_size < Len(frames)
                       THEN /\ bi' = bi + batch_size
                            /\ UNCHANGED <<bpc, tile_size>>
                       ELSE /\ bpc' = "done"
                            /\ tile_size' = original_tile_size
                            /\ UNCHANGED bi
    /\ UNCHANGED <<frames, batch_size, batch_loading, original_tile_size>>
    /\ UNCHANGED <<tilerRun, runState, cacheState, cliState, tile_arg, videoState, subState, dupState>>

BatchNext ==
    \/ BatchBegin
    \/ BatchStep

SpecBatch == Init /\ [][BatchNext]_vars

\* ------------------------------------------------------------------ C13

\* the starts of the batches whose loop pass has ended
BatchesDone ==
    {i \in 0..(Len(frames) - 1) :
        /\ i % batch_size = 0
        /\ bpc = "done" \/ (bpc = "loop" /\ i < bi)}

\* the frames of a batch, the operations made on them and their results
FramesOf(idx) == {idx[k] : k \in 1..Len(idx)}
PassesOn(fs) == {p \in 1..Len(passes) : \A k \in 1..Len(passes[p].frames) :
                                           passes[p].frames[k] \in fs}
ModelCallsOn(fs) == {p \in PassesOn(fs) : passes[p].kind \in {"batch", "tiled"}}
ResultsOf(fs) == SelectSeq(results, LAMBDA r : r.frame \in fs)

SameShapes(idx) == \A k \in 1..Len(idx) : frames[idx[k]] = frames[idx[1]]
SmallFrames(idx) == frames[idx[1]].h <= 720 /\ frames[idx[1]].w <= 1280

\* the batch was upscaled by the one batch call p, result i being slice i
OneBatchCall(idx, p) ==
    /\ ModelCallsOn(FramesOf(idx)) = {p}
    /\ passes[p] = Pass("batch", idx, "ok")
    /\ ResultsOf(FramesOf(idx)) = [k \in 1..Len(idx) |-> Result(idx[k], "batch", p, k)]

\* every frame of the batch had exactly one tiled pass, which made its result
OneTiledPassEach(idx) ==
    /\ \A p \in ModelCallsOn(FramesOf(idx)) : passes[p].kind = "tiled"
    /\ \A k \in 1..Len(idx) :
         /\ Cardinality(ModelCallsOn({idx[k]})) = 1
         /\ \E n \in 1..Len(results) :
              /\ results[n].frame = idx[k]
              /\ results[n].how = "tiled"
              /\ results[n].pass \in ModelCallsOn({idx[k]})

C20_OneResultPerFrame ==
    bpc = "done" =>
      /\ Len(results) = Len(frames)
      /\ \A i \in 1..Len(results) : i <= Len(frames) => results[i].frame = i

\* ------------------------------------ cache_manager.py: CacheManager

\* the state outside the cache
outsideCache == <<prog, pc, img, tile_size, scale, y, x, out_shape, output, calls, tiles,
                  ret, device, model_dev, allocs, runState, batchState, cliState, tile_arg,
                  videoState, subState, dupState>>

\* the keys used: a file path (ImageCacheManager), 'info:<path>'
\* (image_utils.py:81) and 'watermark_detection:<path>:<model>' (watermark.py:233)
Keys == {"/a.jpg", "info:/a.jpg", "watermark_detection:/a.jpg:m1"}
Data == {"d1", "d2"}
NoPath == ""
FileStates == {[size |-> sz, mtime |-> mt] : sz \in {10, 20}, mt \in {100, 200}}

\* os.stat(name): NoFile stands for the OSError of a name that is no file
Stat(name) == IF name \in Paths THEN files[name] ELSE NoFile

\* a signature that leaves the modification time out
FileSignatureNoMtime(name) ==
    IF Stat(name) = NoFile THEN [path |-> "", size |-> 0, mtime |-> 0]
    ELSE [path |-> name, size |-> Stat(name).size, mtime |-> 0]

\* get_file_signature(file_path), lines 86-93: the MD5 of "path:size:mtime",
\* kept as the triple it is computed from; the empty string is NoSignature
FileSignature(name) ==
    IF Stat(name) = NoFile THEN [path |-> "", size |-> 0, mtime |-> 0]
    ELSE [path |-> name, size |-> Stat(name).size, mtime |-> Stat(name).mtime]
NoSignature == [path |-> "", size |-> 0, mtime |-> 0]

\* the entries of self.cache: {'data': .., 'signature': ..} or the bare data
Signed(d, sig) == [signed |-> TRUE, data |-> d, signature |-> sig]
Plain(d) == [signed |-> FALSE, data |-> d, signature |-> NoSignature]

\* d[k] = e  and  del d[k]
Put(d, k, e) == [n \in DOMAIN d \cup {k} |-> IF n = k THEN e ELSE d[n]]
Remove(d, k) == [n \in DOMAIN d \ {k} |-> d[n]]

\* a file holding the whole JSON document of a cache, and a file opened
\* for writing whose document is not (yet) whole
Complete(c) == [state |-> "complete", content |-> c]
Truncated == [state |-> "truncated", content |-> <<>>]

\* load_cache(), lines 43-51: {} for a missing or undecodable file
LoadCache(file) == IF file.state = "complete" THEN file.content ELSE <<>>

\* the file at path is written, touched or deleted by someone
FileChange ==
    /\ cache_ops < MaxOps
    /\ \E p \in Paths :
         \E new \in (FileStates \cup {NoFile}) \ {files[p]} :
           /\ files' = [files EXCEPT ![p] = new]
           /\ stored' = [k \in DOMAIN stored |->
                            IF stored[k].path = p
                            THEN [stored[k] EXCEPT !.unchanged = FALSE] ELSE stored[k]]
    /\ cache_ops' = cache_ops + 1
    /\ UNCHANGED <<cache, disk, tmp_file, save_pc, reads, last, outsideCache>>

\* get_cached_data(key), lines 99-114
GetCachedData ==
    /\ save_pc = "idle"
    /\ cache_ops < MaxOps
    /\ \E key \in Keys :
         IF key \notin DOMAIN cache
         THEN /\ last' = [n |-> cache_ops + 1, key |-> key, hit |-> FALSE, data |-> "",
                          removed |-> FALSE]
              /\ UNCHANGED cache
         ELSE IF cache[key].signed /\ FileSignature(key) # cache[key].signature
         THEN /\ cache' = Remove(cache, key)
              /\ last' = [n |-> cache_ops + 1, key |-> key, hit |-> FALSE, data |-> "",
                          removed |-> TRUE]
         ELSE /\ last' = [n |-> cache_ops + 1, key |-> key, hit |-> TRUE,
                          data |-> cache[key].data, removed |-> FALSE]
              /\ UNCHANGED cache
    /\ cache_ops' = cache_ops + 1
    /\ UNCHANGED <<files, disk, tmp_file, save_pc, reads, stored, outsideCache>>

\* cache_data(key, data, file_path, auto_save), lines 116-138, up to the
\* open(self.cache_file, 'w') of save_cache (line 56), which empties the file
CacheData ==
    /\ save_pc = "idle"
    /\ cache_ops < MaxOps
    /\ \E key \in Keys, d \in Data, file_path \in Paths \cup {NoPath},
          auto_save \in BOOLEAN, open_ok \in BOOLEAN :
         LET signature == FileSignature(file_path)
         IN  /\ IF file_path # NoPath
                THEN IF signature # NoSignature
                     THEN /\ cache' = Put(cache, key, Signed(d, signature))
                          /\ stored' = Put(stored, key, [data |-> d, path |-> file_path,
                                                         state |-> files[file_path],
                                                         unchanged |-> TRUE])
                     ELSE UNCHANGED <<cache, stored>>
                ELSE /\ cache' = Put(cache, key, Plain(d))
                     /\ stored' = Remove(stored, key)
             /\ IF auto_save /\ open_ok
                THEN /\ disk' = Truncated
                     /\ save_pc' = "dump"
                ELSE UNCHANGED <<disk, save_pc>>
    /\ cache_ops' = cache_ops + 1
    /\ UNCHANGED <<files, tmp_file, reads, last, outsideCache>>

\* save_cache(), line 56: open(self.cache_file, 'w') empties cache.json
SaveCacheOpen ==
    /\ save_pc = "idle"
    /\ cache_ops < MaxOps
    /\ disk' = Truncated
    /\ save_pc' = "dump"
    /\ cache_ops' = cache_ops + 1
    /\ UNCHANGED <<files, cache, tmp_file, reads, last, stored, outsideCache>>

\* save_cache(), lines 57-59: json.dump writes the document, or an IOError
\* ends the save with a warning
SaveCacheDump ==
    /\ save_pc = "dump"
    /\ \E ok \in BOOLEAN : disk' = IF ok THEN Complete(cache) ELSE Truncated
    /\ save_pc' = "idle"
    /\ UNCHANGED <<files, cache, tmp_file, reads, last, stored, cache_ops, outsideCache>>

\* save_cache_atomic(), lines 63-65: the temporary file is opened
SaveAtomicOpen ==
    /\ save_pc = "idle"
    /\ cache_ops < MaxOps
    /\ tmp_file' = Truncated
    /\ save_pc' = "atomic_dump"
    /\ cache_ops' = cache_ops + 1
    /\ UNCHANGED <<files, cache, disk, reads, last, stored, outsideCache>>

\* save_cache_atomic(), lines 66 and 68-72: the document is written to the
\* temporary file, or an IOError removes that file
SaveAtomicDump ==
    /\ save_pc = "atomic_dump"
    /\ \E ok \in BOOLEAN :
         /\ tmp_file' = IF ok THEN Complete(cache) ELSE Absent
         /\ save_pc' = IF ok THEN "replace" ELSE "idle"
    /\ UNCHANGED <<files, cache, disk, reads, last, stored, cache_ops, outsideCache>>

\* save_cache_atomic(), line 67: temp_file.replace(self.cache_file)
SaveAtomicReplace ==
    /\ save_pc = "replace"
    /\ \E ok \in BOOLEAN :
         /\ disk' = IF ok THEN tmp_file ELSE disk
         /\ tmp_file' = Absent
    /\ save_pc' = "idle"
    /\ UNCHANGED <<files, cache, reads, last, stored, cache_ops, outsideCache>>

\* another process reads cache.json (load_cache of its own CacheManager)
ConcurrentRead ==
    /\ cache_ops < MaxOps
    /\ reads' = disk
    /\ cache_ops' = cache_ops + 1
    /\ UNCHANGED <<files, cache, disk, tmp_file, save_pc, last, stored, outsideCache>>

\* the process dies in the middle of a save; the next one builds its
\* CacheManager from what is on disk (__init__, lines 38-41)
\* clear_cache(), lines 74-84: the file is unlinked and the cache in memory
\* emptied only when the file exists; unlink may raise, which is caught
ClearCache ==
    /\ save_pc = "idle"
    /\ cache_ops < MaxOps
    /\ \E unlink_ok \in BOOLEAN :
         IF disk.state # "absent" /\ unlink_ok
         THEN /\ disk' = Absent
              /\ cache' = <<>>
              /\ stored' = <<>>
              /\ last' = [n |-> cache_ops + 1, key |-> "clear_cache", hit |-> TRUE,
                          data |-> "", removed |-> TRUE]
         ELSE /\ last' = [n |-> cache_ops + 1, key |-> "clear_cache", hit |-> FALSE,
                          data |-> "", removed |-> FALSE]
              /\ UNCHANGED <<cache, disk, stored>>
    /\ cache_ops' = cache_ops + 1
    /\ UNCHANGED <<files, tmp_file, save_pc, reads, outsideCache>>

CrashAndRestart ==
    /\ save_pc # "idle"
    /\ reads' = disk
    /\ cache' = LoadCache(disk)
    /\ stored' = [k \in {n \in DOMAIN stored \cap DOMAIN LoadCache(disk) \cap DOMAIN cache :
                           LoadCache(disk)[n] = cache[n]} |-> stored[k]]
    /\ last' = NoCall
    /\ save_pc' = "idle"
    /\ UNCHANGED <<files, disk, tmp_file, cache_ops, outsideCache>>

CacheNext ==
    \/ FileChange
    \/ GetCachedData
    \/ CacheData
    \/ SaveCacheOpen
    \/ SaveCacheDump
    \/ SaveAtomicOpen
    \/ SaveAtomicDump
    \/ SaveAtomicReplace
    \/ ConcurrentRead
    \/ ClearCache
    \/ CrashAndRestart

SpecCache == Init /\ [][CacheNext]_vars

\* ------------------------------------------------------------------ C14

\* C14: a reader of cache.json, concurrent with a save or after a crash in
\* the middle of one, never finds a partially written or truncated file.
C14_NoPartialRead == reads.state # "truncated"

\* ------------------------------------------------------------------ C15

\* the step is a call of get_cached_data(key)
GetStep(key) == last'.n # last.n /\ last'.key = key

\* C15: after cache_data(key, data, file_path) has stored an entry for an
\* existing file, get_cached_data(key) returns data for as long as the file
\* is unchanged, whatever the key.
C15_HitWhileUnchanged ==
    [][\A key \in Keys :
         (GetStep(key) /\ key \in DOMAIN stored /\ stored[key].unchanged)
         => (last'.hit /\ last'.data = stored[key].data)]_vars

\* ------------------------------------------------------------------ C16

\* C16: when the size or the modification time of the file differs from
\* what it was when the entry of a key was stored with a signature,
\* get_cached_data returns None for the key and removes the entry from the
\* cache in memory.
C16_StaleNeverReturned ==
    [][\A key \in Keys :
         (/\ GetStep(key)
          /\ key \in DOMAIN cache
          /\ cache[key].signed
          /\ key \in DOMAIN stored
          /\ files[stored[key].path] # stored[key].state)
         => (~last'.hit /\ last'.removed /\ key \notin DOMAIN cache')]_vars

\* an entry stored under the path of a file that exists was removed by
\* get_cached_data after the file's size or modification time had changed,
\* the file still being there
C16_Witness ==
    /\ last.removed
    /\ last.key \in Paths
    /\ last.key \in DOMAIN stored
    /\ stored[last.key].path = last.key
    /\ files[last.key] # NoFile
    /\ files[last.key] # stored[last.key].state
    /\ last.key \notin DOMAIN cache

\* ------------------------------------ the command-line entry points

\* the state outside the command-line programs
outsideCli == <<prog, pc, img, tile_size, scale, y, x, out_shape, output, calls, tiles,
                ret, device, model_dev, allocs, runState, batchState, cacheState,
                tile_arg, videoState, subState, dupState>>

CliPrograms == {"image", "video", "demo"}

\* what a program can find: whether an input path was given, the file exists
\* and can be decoded, --scale is 2 or 4, the model file exists and loads,
\* --estimate was given, the user answered 'y', and the processing and the
\* saving of the result went through
Environments ==
    [input_given : BOOLEAN, input_exists : BOOLEAN, input_readable : BOOLEAN,
     scale_ok : BOOLEAN, model_exists : BOOLEAN, model_loads : BOOLEAN,
     estimate : BOOLEAN, confirmed : BOOLEAN, work_ok : BOOLEAN]

\* a file that does not exist cannot be decoded, a model file that does not
\* exist cannot be loaded, and a path not given names no file
Possible(e) ==
    /\ e.input_readable => e.input_exists
    /\ e.input_exists => e.input_given
    /\ e.model_loads => e.model_exists

\* how a program ended: its exit status and what it printed
Ended(status, messages) == [status |-> status, messages |-> messages]

\* the process of one of the programs is started
CliStart ==
    /\ cli = "none"
    /\ \E p \in CliPrograms, e \in Environments :
         /\ Possible(e)
         /\ cli' = p
         /\ env' = e
    /\ UNCHANGED <<exit_status, printed, outsideCli>>

\* image_upscale_direct.py: sys.exit(main()), lines 332-393, with
\* CoreMLImageUpscaler.upscale_image (241-291) and load_model (75-92)
ImageExit(e) ==
    IF ~e.input_given THEN Ended(2, {"usage"})
    ELSE IF ~e.input_exists THEN Ended(1, {"Input file not found"})
    ELSE IF ~e.scale_ok THEN Ended(1, {"Scale factor must be 2 or 4"})
    ELSE IF ~e.input_readable THEN Ended(1, {"Could not read input image"})
    ELSE IF ~(e.model_exists /\ e.model_loads) THEN Ended(1, {"Failed to load model"})
    ELSE IF ~e.work_ok THEN Ended(1, {"Failed to upscale image"})
    ELSE Ended(0, {})

\* video_upscale_direct.py: sys.exit(main()), lines 821-913, with
\* upscale_video_optimized (440-781)
VideoExit(e) ==
    IF ~e.input_given THEN Ended(2, {"usage"})
    ELSE IF ~e.input_exists THEN Ended(1, {"Input file not found"})
    ELSE IF e.estimate THEN Ended(0, {})
    ELSE IF ~e.input_readable
    THEN Ended(1, {"Could not open video", "Video upscaling failed"})
    ELSE IF ~(e.model_exists /\ e.model_loads) \/ ~e.work_ok
    THEN Ended(1, {"Error during video processing", "Video upscaling failed"})
    ELSE Ended(0, {})

\* video_upscale_demo.py: main(), lines 186-229; main returns None and its
\* value is not given to sys.exit, so the status is 0 unless an exception
\* leaves main
DemoExit(e) ==
    IF ~e.input_given THEN Ended(0, {"usage"})
    ELSE IF ~e.input_exists THEN Ended(0, {"Input video not found"})
    ELSE IF ~e.input_readable THEN Ended(1, {"Traceback"})
    ELSE IF ~e.confirmed THEN Ended(0, {"Cancelled"})
    ELSE IF ~e.work_ok THEN Ended(1, {"Traceback"})
    ELSE IF ~(e.model_exists /\ e.model_loads) THEN Ended(0, {"Frame failed"})
    ELSE Ended(0, {})

ImageMain ==
    /\ cli = "image"
    /\ exit_status = -1
    /\ exit_status' = ImageExit(env).status
    /\ printed' = ImageExit(env).messages
    /\ UNCHANGED <<cli, env, outsideCli>>

VideoMain ==
    /\ cli = "video"
    /\ exit_status = -1
    /\ exit_status' = VideoExit(env).status
    /\ printed' = VideoExit(env).messages
    /\ UNCHANGED <<cli, env, outsideCli>>

DemoMain ==
    /\ cli = "demo"
    /\ exit_status = -1
    /\ exit_status' = DemoExit(env).status
    /\ printed' = DemoExit(env).messages
    /\ UNCHANGED <<cli, env, outsideCli>>

CliNext ==
    \/ CliStart
    \/ ImageMain
    \/ VideoMain
    \/ DemoMain

SpecCli == Init /\ [][CliNext]_vars

\* ------------------------------------------------------------------ C17

\* the program had to load the model: it was given an input file it could
\* read and was asked to upscale it
ModelNeeded ==
    /\ env.input_exists
    /\ env.input_readable
    /\ cli = "image" => env.scale_ok
    /\ cli = "video" => ~env.estimate
    /\ cli = "demo" => env.confirmed

\* C17: each of the three upscaling programs, given the path of an input
\* file that does not exist, or needing a model file that cannot be loaded,
\* prints a message and ends with a non-zero exit status.
C17_FailureExitsNonZero ==
    (/\ exit_status # -1
     /\ env.input_given
     /\ \/ ~env.input_exists
        \/ ModelNeeded /\ ~(env.model_exists /\ env.model_loads))
    => (exit_status # 0 /\ printed # {})

\* ------------------------------------------------------------------ C18

\* the tiles of the grid of inference_tiled (lines 404-415): origin and extent
GridTiles(h, w, t) ==
    { <<i * t, j * t, Min(t, h - i * t), Min(t, w - j * t)>> :
        i \in 0..(TileCount(h, t) - 1), j \in 0..(TileCount(w, t) - 1) }

\* the tiles visited so far: origin and extent
VisitedTiles == { <<tiles[k].y, tiles[k].x, tiles[k].h, tiles[k].w>> : k \in DOMAIN tiles }

\* the run is a tiled run of run_inference whose full output exceeds the
\* limit of the device
OverDeviceLimit ==
    /\ prog \in {"tiled", "streaming"}
    /\ TooLarge(img.h * scale, img.w * scale, device)

\* C18: when the full output exceeds the limit of the device, inference_tiled
\* hands the run to inference_streaming, no tensor of the size of the whole
\* output is allocated on the device, and the streaming run, once returned,
\* has visited exactly the tiles of the grid of inference_tiled and returns
\* an output of H*S rows and W*S columns.
C18_StreamingSparesDevice ==
    OverDeviceLimit
    => /\ prog = "streaming"
       /\ \A i \in DOMAIN allocs :
            ~(allocs[i].dev = device /\ allocs[i].shape = OutputShape(img.h, img.w, scale))
       /\ pc = "done"
          => /\ VisitedTiles = GridTiles(img.h, img.w, tile_size)
             /\ Len(tiles) = Cardinality(GridTiles(img.h, img.w, tile_size))
             /\ ret = ReturnOutput
             /\ out_shape = OutputShape(img.h, img.w, scale)

\* ------------------------------------------------------------------ C19

\* the call i of a streaming run is the retry of the call before it: the
\* same tile, on the CPU, after an out-of-memory error
IsRetry(i) ==
    /\ i > 1
    /\ calls[i - 1].outcome = "oom"
    /\ calls[i].dev = "cpu"
    /\ <<calls[i].y, calls[i].x, calls[i].h, calls[i].w>>
         = <<calls[i - 1].y, calls[i - 1].x, calls[i - 1].h, calls[i - 1].w>>

\* C19: in inference_streaming, between two tiles and after the routine has
\* ended, the model is on self.device; every model call other than the retry
\* of a tile that ran out of memory is made on self.device, a tile that ran
\* out of memory is retried once on the CPU, and an error other than
\* out-of-memory ends the routine with that error.
C19_OomRetriedOnCpuOnly ==
    (prog = "streaming" /\ pc \in {"loop", "done", "raised"})
    => /\ model_dev = device
       /\ \A i \in DOMAIN calls :
            /\ ~IsRetry(i) => calls[i].dev = device
            /\ calls[i].outcome = "oom" => (i < Len(calls) /\ IsRetry(i + 1))
            /\ calls[i].outcome = "raise" => (i = Len(calls) /\ pc = "raised")

\* ------------------------------------------------------------------ C23

\* C23: whenever upscale_batch_direct has returned or raised, the tile size
\* of the upscaler is the one it had before the call (the value the
\* constructor gave it) and the _batch_loading flag is not set.
C23_BatchLeavesNoTrace ==
    bpc \in {"done", "raised"}
    => (~batch_loading /\ tile_size = DefaultTileSize)

\* ------------------------------------------------------------------ C24

\* the tile a write belongs to and the rectangle it fills
WriteRect(wr) == <<wr.ty, wr.tx, wr.r0, wr.r1, wr.c0, wr.c1>>

\* two rasters were made by the same sequence of tiles written to the same
\* rectangles
SameWrites(log1, log2) ==
    /\ Len(log1) = Len(log2)
    /\ \A k \in 1..Len(log1) : WriteRect(log1[k]) = WriteRect(log2[k])

\* the tile at (ty, tx) of an image of shape (h, w) cut with tile size t, as
\* origin and extent
ClippedTile(ty, tx, h, w, t) == <<ty, tx, Min(t, h - ty), Min(t, w - tx)>>

\* C24: a streaming run that returns has made the same sequence of writes as
\* the in-memory tiled run of the same object on the same image with the same
\* tile size: tile for tile the same origin (a multiple of T), the same
\* clipped extent and the same output rectangle; the in-memory run holds
\* model output, the streaming run its 8-bit quantisation.
C24_StreamingWritesAsTiled ==
    (/\ pc = "done"
     /\ prog = "streaming"
     /\ runs_done >= 1
     /\ first_run.returned
     /\ first_run.img = img
     /\ first_run.t = tile_size)
    => /\ SameWrites(output, first_run.raster)
       /\ \A k \in 1..Len(output) :
            /\ output[k].kind = "model8"
            /\ output[k].ty % tile_size = 0
            /\ output[k].tx % tile_size = 0
            /\ <<tiles[k].y, tiles[k].x, tiles[k].h, tiles[k].w>>
                 = ClippedTile(output[k].ty, output[k].tx, img.h, img.w, tile_size)

\* a streaming run has returned on an object whose first run was the
\* in-memory tiled run of the same image, over a grid of several tiles
C24_Witness ==
    /\ pc = "done"
    /\ prog = "streaming"
    /\ runs_done >= 1
    /\ first_run.returned
    /\ first_run.img = img
    /\ first_run.t = tile_size
    /\ Len(first_run.raster) >= 4
    /\ \A k \in 1..Len(first_run.raster) : first_run.raster[k].kind = "model"

\* ------------------------------------------------------------------ C26

\* the step is a call of clear_cache
ClearStep == last'.n # last.n /\ last'.key = "clear_cache"

\* C26: when clear_cache has returned, the cache in memory has no entries
\* and the cache file does not exist, whether or not the cache had been
\* written to the file before.
C26_ClearedEverywhere ==
    [][ClearStep => (cache' = <<>> /\ disk'.state = "absent")]_vars

\* ------------------------------------------------------------------ C25

\* C25: when upscale_image was given a tile size and runs tiled inference,
\* the tiles are cut with that size; the size chosen by
\* _get_optimal_tile_size is used only when no tile size was given.
C25_TileArgumentUsed ==
    (prog = "coreml" /\ pc # "idle")
    => /\ tile_arg # 0 => tile_size = tile_arg
       /\ tile_arg = 0 => tile_size = GetOptimalTileSize(img.h, img.w)

\* ------------- video_upscale_direct.py: upscale_video_optimized

\* the runs made on one input video
MaxVideoRuns == 3

\* the state outside upscale_video_optimized
outsideVideo == <<prog, pc, img, tile_size, scale, y, x, out_shape, output, calls, tiles,
                  ret, device, model_dev, allocs, runState, batchState, cacheState,
                  cliState, tile_arg, subState, dupState>>

\* the numbers of frames of the input videos, the values of --interval and
\* of --workers tried
VideoLengths == {1, 4, 5}
FrameIntervals == {1, 2, 3}
WorkerCounts == {1, 2}

\* the frames for which frame_idx % frame_interval == 0
KeyIndices(n, interval) == {f \in 0..(n - 1) : f % interval = 0}

\* sorted(S)
RECURSIVE Sorted(_)
Sorted(S) ==
    IF S = {} THEN <<>>
    ELSE LET m == CHOOSE a \in S : \A b \in S : a <= b
         IN  <<m>> \o Sorted(S \ {m})

\* the scan that collects every key frame, processed before or not
KeyFramesAll(n, interval, existing) == Sorted(KeyIndices(n, interval))

\* the scan of the input, lines 563-577: key_frames gets, in input order,
\* the key frames that are not in existing_frames
KeyFrames(n, interval, existing) == Sorted(KeyIndices(n, interval) \ existing)

\* the upscaled frame read from the file of frame f, and the Lanczos resize
\* of the input frame f
File(f) == [kind |-> "file", frame |-> f]
Resize(f) == [kind |-> "resize", frame |-> f]

\* cv2.imread(processed_frames[f]): None when the file is missing or unreadable
ImRead(dir, f) ==
    IF f \in DOMAIN dir.files /\ dir.files[f] = "ok" THEN File(f) ELSE None

\* the previous key taken as the first key of all
PrevKeyFirst(keys, f) ==
    IF {k \in keys : k < f} = {} THEN -1
    ELSE CHOOSE a \in keys : \A b \in keys : a <= b

\* max([idx for idx in key_frame_indices if idx < frame_idx], default=None)
PrevKey(keys, f) ==
    IF {k \in keys : k < f} = {} THEN -1
    ELSE CHOOSE a \in {k \in keys : k < f} : \A b \in {k \in keys : k < f} : a >= b

\* min([idx for idx in key_frame_indices if idx > frame_idx], default=None)
NextKey(keys, f) ==
    IF {k \in keys : k > f} = {} THEN -1
    ELSE CHOOSE a \in {k \in keys : k > f} : \A b \in {k \in keys : k > f} : a <= b

\* a frame written to the output video: for which input frame, how it was
\* made and from what
Written(f, kind, a, b, num, den) ==
    [frame |-> f, kind |-> kind, a |-> a, b |-> b, num |-> num, den |-> den]

\* the files named upscaled_NNNNNN.jpg after the frames of a batch are
\* written: cv2.imwrite leaves a good file, a bad one or none
WriteFiles(old, batch, wr) ==
    [f \in DOMAIN old \cup {batch[k] : k \in {j \in DOMAIN batch : wr[j] # "none"}} |->
       IF \E k \in DOMAIN batch : batch[k] = f /\ wr[k] # "none"
       THEN wr[CHOOSE k \in DOMAIN batch : batch[k] = f /\ wr[k] # "none"]
       ELSE old[f]]

\* upscale_video_optimized(input_video, output_video, frame_interval, workers),
\* lines 440-582: the temporary directory, the video, the model, the files
\* already there and the scan for the key frames.  With no key frame left
\* to process batch_size is 0 and range(0, 0, 0) raises ValueError.
VideoStart ==
    /\ vpc \in {"idle", "done", "failed"}
    /\ video_runs < MaxVideoRuns
    /\ \E n \in (IF video = NoVideo THEN VideoLengths ELSE {video.frames}),
          interval \in FrameIntervals, workers \in WorkerCounts,
          opened \in BOOLEAN, loaded \in BOOLEAN :
         LET dir == IF temp_dir.exists THEN temp_dir ELSE [exists |-> TRUE, files |-> <<>>]
             existing == IF temp_dir.exists THEN DOMAIN dir.files ELSE {}
             todo == KeyFrames(n, interval, existing)
         IN  /\ video' = [frames |-> n, interval |-> interval, workers |-> workers]
             /\ resume_mode' = temp_dir.exists
             /\ temp_dir' = dir
             /\ IF opened /\ loaded
                THEN /\ existing_frames' = existing
                     /\ processed_frames' = existing
                     /\ key_frames' = todo
                     /\ vpc' = IF todo = <<>> THEN "failed" ELSE "process"
                ELSE /\ existing_frames' = {}
                     /\ processed_frames' = {}
                     /\ key_frames' = <<>>
                     /\ vpc' = "failed"
    /\ video_runs' = video_runs + 1
    /\ vi' = 0
    /\ sent' = <<>>
    /\ frame_idx' = 0
    /\ last_upscaled' = None
    /\ next_upscaled' = None
    /\ current_next_idx' = -1
    /\ written' = <<>>
    /\ UNCHANGED outsideVideo

\* one pass of the loop over the batches of key frames, lines 584-601, and
\* the start of the second pass (609-616) after the last batch
VideoBatch ==
    /\ vpc = "process"
    /\ LET size == Min(video.workers, Len(key_frames))
           batch == SubSeq(key_frames, vi + 1, Min(vi + size, Len(key_frames)))
       IN  \E raised \in BOOLEAN, wr \in [DOMAIN batch -> {"ok", "bad", "none"}] :
             /\ Cardinality({f \in DOMAIN temp_dir.files : temp_dir.files[f] = "bad"})
                  + Cardinality({k \in DOMAIN batch : wr[k] # "ok"})
                  + (IF raised THEN 1 ELSE 0) <= MaxFailures
             /\ sent' = sent \o batch
             /\ IF raised
                THEN /\ vpc' = "failed"
                     /\ UNCHANGED <<temp_dir, processed_frames, vi>>
                ELSE /\ temp_dir' = [temp_dir EXCEPT
                                       !.files = WriteFiles(temp_dir.files, batch, wr)]
                     /\ processed_frames' =
                          processed_frames \cup {batch[k] : k \in DOMAIN batch}
                     /\ IF vi + size < Len(key_frames)
                        THEN /\ vi' = vi + size
                             /\ UNCHANGED vpc
                        ELSE /\ vpc' = "reconstruct"
                             /\ UNCHANGED vi
    /\ UNCHANGED <<video, video_runs, resume_mode, existing_frames, key_frames, frame_idx,
                   last_upscaled, next_upscaled, current_next_idx, written, outsideVideo>>

\* one pass of the loop of the second pass, lines 618-683: the frame read
\* from the input is a key frame with an upscaled file recorded, or lies
\* between such frames, or after the last, or before the first
VideoFrame ==
    /\ vpc = "reconstruct"
    /\ frame_idx < video.frames
    /\ LET keys == processed_frames
           f == frame_idx
           upscaled_frame == ImRead(temp_dir, f)
           after == NextKey(keys, f)
           before == PrevKey(keys, f)
           reload == \/ next_upscaled = None
                     \/ current_next_idx = -1
                     \/ after # current_next_idx
           next_now == IF reload THEN ImRead(temp_dir, after) ELSE next_upscaled
       IN  IF f \in keys
           THEN IF upscaled_frame # None
                THEN /\ last_upscaled' = upscaled_frame
                     /\ next_upscaled' = IF after # -1 THEN ImRead(temp_dir, after) ELSE None
                     /\ written' = Append(written, Written(f, "key", upscaled_frame, None, 0, 1))
                     /\ UNCHANGED current_next_idx
                ELSE /\ last_upscaled' = Resize(f)
                     /\ next_upscaled' = None
                     /\ written' = Append(written, Written(f, "resize", Resize(f), None, 0, 1))
                     /\ UNCHANGED current_next_idx
           ELSE IF last_upscaled = None
           THEN /\ written' = Append(written, Written(f, "resize", Resize(f), None, 0, 1))
                /\ UNCHANGED <<last_upscaled, next_upscaled, current_next_idx>>
           ELSE IF after = -1
           THEN /\ written' = Append(written, Written(f, "repeat", last_upscaled, None, 0, 1))
                /\ UNCHANGED <<last_upscaled, next_upscaled, current_next_idx>>
           ELSE /\ next_upscaled' = next_now
                /\ current_next_idx' = IF reload THEN after ELSE current_next_idx
                /\ written' =
                     Append(written,
                            IF next_now # None /\ before # -1
                            THEN Written(f, "interpolate", last_upscaled, next_now,
                                         f - before, after - before)
                            ELSE Written(f, "repeat", last_upscaled, None, 0, 1))
                /\ UNCHANGED last_upscaled
    /\ frame_idx' = frame_idx + 1
    /\ UNCHANGED <<vpc, video, video_runs, temp_dir, resume_mode, existing_frames, key_frames,
                   processed_frames, vi, sent, outsideVideo>>

\* the end of the second pass and of the function, lines 685-781: the video
\* is copied to the output (with or without audio), and only then is the
\* temporary directory removed; a failing rmtree is reported and ignored
VideoFinish ==
    /\ vpc = "reconstruct"
    /\ frame_idx = video.frames
    /\ \E copied \in BOOLEAN, removed \in BOOLEAN :
         IF copied
         THEN /\ vpc' = "done"
              /\ temp_dir' = IF removed THEN NoDir ELSE temp_dir
         ELSE /\ vpc' = "failed"
              /\ UNCHANGED temp_dir
    /\ UNCHANGED <<video, video_runs, resume_mode, existing_frames, key_frames,
                   processed_frames, vi, sent, frame_idx, last_upscaled, next_upscaled,
                   current_next_idx, written, outsideVideo>>

VideoNext ==
    \/ VideoStart
    \/ VideoBatch
    \/ VideoFrame
    \/ VideoFinish

SpecVideo == Init /\ [][VideoNext]_vars

\* ------------------------------------------------------------------ C21

\* C21: a run of upscale_video_optimized that failed leaves the temporary
\* directory in place, and the next run on the same input resumes from it;
\* no run gives upscale_batch_direct a frame whose upscaled file is in the
\* directory already; when the second pass starts, every frame whose index
\* is divisible by frame_interval has an upscaled file recorded in
\* processed_frames; and the directory disappears only in the step in which
\* a run returns True.
C21_ResumeKeepsProgress ==
    [][ /\ vpc' = "failed" => temp_dir'.exists
        /\ (vpc = "failed" /\ video_runs' # video_runs) => resume_mode'
        /\ \A k \in (Len(sent) + 1)..Len(sent') : sent'[k] \notin DOMAIN temp_dir.files
        /\ vpc' = "reconstruct"
           => KeyIndices(video'.frames, video'.interval) \subseteq processed_frames'
        /\ (temp_dir.exists /\ ~temp_dir'.exists) => (vpc # "done" /\ vpc' = "done")
      ]_vars

\* a run that resumed from the directory of a failed run, found upscaled
\* files there, sent the other key frames to the model and has started the
\* second pass
C21_Witness ==
    /\ vpc = "reconstruct"
    /\ video_runs >= 2
    /\ resume_mode
    /\ existing_frames # {}
    /\ sent # <<>>
    /\ Len(sent) < Cardinality(KeyIndices(video.frames, video.interval))

\* ------------------------------------------------------------------ C22

\* p and n are two frames of keys that follow each other, with f between
Between(keys, p, f, n) ==
    /\ p \in keys
    /\ n \in keys
    /\ p < f
    /\ f < n
    /\ \A q \in keys : q <= p \/ q >= n

\* p is the last frame of keys and f comes after it
AfterLast(keys, p, f) ==
    /\ p \in keys
    /\ p < f
    /\ \A q \in keys : q <= p

\* the second pass has written one frame for each frame read so far, in
\* input order
OneFramePerInputFrame ==
    /\ vpc = "reconstruct" => Len(written) = frame_idx
    /\ vpc = "done" => Len(written) = video.frames
    /\ \A k \in 1..Len(written) : written[k].frame = k - 1

\* C22 as stated, the key frames being the frames whose index is divisible
\* by frame_interval: one output frame per input frame, in order; a key frame
\* comes from its upscaled file, a frame between the key frames p and n is
\* interpolated from the upscaled files of p and n with ratio
\* (f - p) / (n - p), a frame after the last key frame repeats the upscaled
\* file of that key frame.
C22_AsStated ==
    /\ OneFramePerInputFrame
    /\ vpc = "reconstruct"
       => \A k \in 1..Len(written) :
            LET f == k - 1
                keys == KeyIndices(video.frames, video.interval)
            IN  /\ f \in keys => written[k] = Written(f, "key", File(f), None, 0, 1)
                /\ \A p, n \in keys :
                     Between(keys, p, f, n)
                     => written[k] = Written(f, "interpolate", File(p), File(n), f - p, n - p)
                /\ \A p \in keys :
                     AfterLast(keys, p, f)
                     => written[k] = Written(f, "repeat", File(p), None, 0, 1)

\* what the second pass holds in last_upscaled after the recorded frame p:
\* its upscaled file, or the Lanczos resize of the input frame when the file
\* cannot be read
Upscaled(p) == IF ImRead(temp_dir, p) # None THEN File(p) ELSE Resize(p)

\* C22, for the frames that have an upscaled file recorded (the frames
\* divisible by frame_interval and the frames whose files an earlier run
\* left): one output frame per input frame, in order; a recorded frame is
\* written from its upscaled file, or as the Lanczos resize of the input
\* frame when the file cannot be read; a frame between two recorded frames
\* p < f < n is interpolated from what was written for p and the file of n
\* with ratio (f - p) / (n - p), or repeats what was written for p when the
\* file of n cannot be read; a frame after the last recorded frame repeats
\* what was written for that frame.
C22_FromRecordedFiles ==
    /\ OneFramePerInputFrame
    /\ vpc = "reconstruct"
       => \A k \in 1..Len(written) :
            LET f == k - 1
                keys == processed_frames
            IN  /\ f \in keys
                   => written[k] = IF ImRead(temp_dir, f) # None
                                   THEN Written(f, "key", File(f), None, 0, 1)
                                   ELSE Written(f, "resize", Resize(f), None, 0, 1)
                /\ \A p, n \in keys :
                     Between(keys, p, f, n)
                     => written[k] = IF ImRead(temp_dir, n) # None
                                     THEN Written(f, "interpolate", Upscaled(p), File(n),
                                                  f - p, n - p)
                                     ELSE Written(f, "repeat", Upscaled(p), None, 0, 1)
                /\ \A p \in keys :
                     AfterLast(keys, p, f)
                     => written[k] = Written(f, "repeat", Upscaled(p), None, 0, 1)

\* the second pass has written every frame of a video with key frames,
\* interpolated frames between them and frames after the last key frame,
\* one key frame's file being unreadable
C22_Witness ==
    /\ vpc = "reconstruct"
    /\ frame_idx = video.frames
    /\ \E i, j, k, l \in 1..Len(written) :
         /\ written[i].kind = "key"
         /\ written[j].kind = "interpolate"
         /\ written[j].den > 2
         /\ written[k].kind = "repeat"
         /\ written[l].kind = "resize"

\* ------ youtube_subtitles.py: ParallelSubtitleDownloader.download_subtitles

\* the state outside download_subtitles
outsideSub == <<prog, pc, img, tile_size, scale, y, x, out_shape, output, calls, tiles,
                ret, device, model_dev, allocs, runState, batchState, cacheState,
                cliState, tile_arg, videoState, dupState>>

\* the lists of videos given (a playlist may hold a video twice), and the
\* sizes of the thread pool
VideoIds == {"a", "b"}
VideoLists == {<<>>, <<"a">>, <<"a", "b">>, <<"a", "a">>, <<"b", "a", "a">>}
PoolSizes == {1, 2}

\* the path of the subtitle file yt-dlp wrote in the output directory, and
\* the path of (the copy of) the file of the cache
Downloaded(id) == [kind |-> "downloaded", id |-> id]
Cached(id) == [kind |-> "cached", id |-> id]
NoPathYet == [kind |-> "none", id |-> ""]
Raises == [kind |-> "raise", id |-> ""]

\* a future: "pending", "running", "finished" or "collected", whether
\* download_subtitle found the subtitle in the cache, and its result
Future(state, hit, result) == [state |-> state, hit |-> hit, result |-> result]

\* [v for v in videos if not is_subtitle_cached(v.id, lang)]   (line 340)
RECURSIVE Uncached(_, _)
Uncached(vs, cache_ids) ==
    IF vs = <<>> THEN <<>>
    ELSE IF Head(vs) \in cache_ids THEN Uncached(Tail(vs), cache_ids)
    ELSE <<Head(vs)>> \o Uncached(Tail(vs), cache_ids)

\* the cached path taking the place of the path already in results
IncludeCachedOverwrite(res, vs, cache_ids) ==
    [id \in DOMAIN res \cup ({vs[k] : k \in DOMAIN vs} \cap cache_ids) |->
       IF id \in cache_ids THEN Cached(id) ELSE res[id]]

\* lines 389-394: every video of the list that is not in results and has a
\* cached subtitle is added with the cached path
IncludeCached(res, vs, cache_ids) ==
    [id \in DOMAIN res \cup ({vs[k] : k \in DOMAIN vs} \cap cache_ids) |->
       IF id \in DOMAIN res THEN res[id] ELSE Cached(id)]

\* download_subtitles(videos, lang, output_dir, skip_cached), lines 335-372:
\* the filter, the early return and the submission of the downloads
SubCall ==
    /\ spc = "idle"
    /\ \E vs \in VideoLists, skip \in BOOLEAN, workers \in PoolSizes,
          cache_ids \in SUBSET VideoIds :
         LET todo == IF skip THEN Uncached(vs, cache_ids) ELSE vs
         IN  /\ sub_videos' = vs
             /\ skip_cached' = skip
             /\ max_workers' = workers
             /\ sub_cache' = cache_ids
             /\ to_download' = todo
             /\ tasks' = [k \in DOMAIN todo |-> Future("pending", FALSE, NoPathYet)]
             /\ spc' = IF todo = <<>> THEN "returned" ELSE "running"
    /\ collected' = <<>>
    /\ sub_results' = <<>>
    /\ UNCHANGED outsideSub

\* a worker thread takes the next submitted download and looks in the cache
\* (download_subtitle, lines 234-246)
SubStart ==
    /\ spc = "running"
    /\ \E k \in DOMAIN tasks :
         /\ tasks[k].state = "pending"
         /\ \A j \in 1..(k - 1) : tasks[j].state # "pending"
         /\ Cardinality({j \in DOMAIN tasks : tasks[j].state = "running"}) < max_workers
         /\ tasks' = [tasks EXCEPT ![k] = Future("running", to_download[k] \in sub_cache,
                                                 NoPathYet)]
    /\ UNCHANGED <<spc, sub_videos, skip_cached, max_workers, sub_cache, to_download,
                   collected, sub_results, outsideSub>>

\* the download ends (download_subtitle, lines 236-290): the cached path, or
\* the path of the file downloaded and copied to the cache, or None, or an
\* exception
SubFinish ==
    /\ spc = "running"
    /\ \E k \in DOMAIN tasks :
         /\ tasks[k].state = "running"
         /\ IF tasks[k].hit
            THEN /\ tasks' = [tasks EXCEPT ![k] = Future("finished", TRUE,
                                                         Cached(to_download[k]))]
                 /\ UNCHANGED sub_cache
            ELSE \E outcome \in {"ok", "none", "raise"} :
                   /\ tasks' = [tasks EXCEPT ![k] =
                                  Future("finished", FALSE,
                                         IF outcome = "ok" THEN Downloaded(to_download[k])
                                         ELSE IF outcome = "none" THEN NoPathYet
                                         ELSE Raises)]
                   /\ sub_cache' = IF outcome = "ok"
                                   THEN sub_cache \cup {to_download[k]} ELSE sub_cache
    /\ UNCHANGED <<spc, sub_videos, skip_cached, max_workers, to_download, collected,
                   sub_results, outsideSub>>

\* one pass of the loop over as_completed, lines 375-387, and after the
\* last future the end of the function (389-399)
SubCollect ==
    /\ spc = "running"
    /\ \E k \in DOMAIN tasks :
         /\ tasks[k].state = "finished"
         /\ LET got == IF tasks[k].result.kind \in {"downloaded", "cached"}
                       THEN [id \in DOMAIN sub_results \cup {to_download[k]} |->
                               IF id = to_download[k] THEN tasks[k].result
                               ELSE sub_results[id]]
                       ELSE sub_results
                finished == \A j \in DOMAIN tasks \ {k} : tasks[j].state = "collected"
            IN  /\ tasks' = [tasks EXCEPT ![k].state = "collected"]
                /\ collected' = Append(collected, k)
                /\ spc' = IF finished THEN "returned" ELSE "running"
                /\ sub_results' = IF finished /\ skip_cached
                                  THEN IncludeCached(got, sub_videos, sub_cache)
                                  ELSE got
    /\ UNCHANGED <<sub_videos, skip_cached, max_workers, sub_cache, to_download, outsideSub>>

SubNext ==
    \/ SubCall
    \/ SubStart
    \/ SubFinish
    \/ SubCollect

SpecSub == Init /\ [][SubNext]_vars

\* ------------------------------------------------------------------ C27

\* the ids of the videos of a list
Ids(vs) == {vs[k] : k \in DOMAIN vs}

\* the downloads that returned a subtitle path
WithPath == {k \in DOMAIN tasks : tasks[k].result.kind \in {"downloaded", "cached"}}

\* the place of the future k in the order of completion
Place(k) == CHOOSE n \in DOMAIN collected : collected[n] = k

\* the download of the video id that returned a path and completed last
LastWithPath(id) ==
    CHOOSE k \in WithPath :
      /\ to_download[k] = id
      /\ \A j \in WithPath : to_download[j] = id => Place(j) <= Place(k)

\* C27 as stated: the mapping returned holds exactly the ids of the
\* submitted videos whose download returned a subtitle path, each with that
\* path, whatever the order in which the downloads completed.
C27_AsStated ==
    spc = "returned"
    => /\ DOMAIN sub_results = {to_download[k] : k \in WithPath}
       /\ \A k \in WithPath : sub_results[to_download[k]] = tasks[k].result

\* C27: whatever the order in which the downloads completed, the mapping
\* returned holds the id of every submitted video of which a download
\* returned a subtitle path, with that path (with the path of the download
\* that completed last when the list holds the video more than once), and
\* with skip_cached also the id of every video of the list that was skipped
\* as cached, with its cached path, and nothing else; it is empty when no
\* video was left to download.
C27_DownloadedAndCached ==
    spc = "returned"
    => IF to_download = <<>> THEN sub_results = <<>>
       ELSE /\ DOMAIN sub_results
                 = {to_download[k] : k \in WithPath}
                   \cup (IF skip_cached THEN Ids(sub_videos) \cap sub_cache ELSE {})
            /\ \A id \in DOMAIN sub_results :
                 sub_results[id] = IF \E k \in WithPath : to_download[k] = id
                                   THEN tasks[LastWithPath(id)].result
                                   ELSE Cached(id)
            /\ \A k \in WithPath :
                 Cardinality({j \in DOMAIN to_download : to_download[j] = to_download[k]}) = 1
                 => sub_results[to_download[k]] = tasks[k].result

\* download_subtitles has returned after two downloads of different videos
\* that both returned a path and completed in the opposite order of their
\* submission
C27_Witness ==
    /\ spc = "returned"
    /\ skip_cached
    /\ Len(collected) = 2
    /\ collected = <<2, 1>>
    /\ WithPath = {1, 2}
    /\ to_download[1] # to_download[2]
    /\ tasks[1].result.kind = "downloaded"

\* ------------------------------------------------------------------ C28

\* C28: with skip_cached=True, every video of the list whose subtitle was in
\* the cache at the call (and so was not submitted for download) is in the
\* mapping returned, with its cached path, also when every video of the
\* list was cached.
C28_CachedVideosReturned ==
    (spc = "returned" /\ skip_cached)
    => \A id \in Ids(sub_videos) \ Ids(to_download) :
         /\ id \in DOMAIN sub_results
         /\ sub_results[id] = Cached(id)


\* ---------------------------------------------------------------------------
\* find-duplicate-images: DuplicateImageFinder.find_duplicates in its three
\* modes, and delete_duplicates.  A dictionary is a sequence of [key, files]
\* records in insertion order.
\* ---------------------------------------------------------------------------

\* the longest list of image files given to find_duplicates
MaxImages == 3

outsideDup == <<prog, pc, img, tile_size, scale, y, x, out_shape, output, calls, tiles,
                ret, device, model_dev, allocs, runState, batchState, cacheState,
                cliState, tile_arg, videoState, subState>>

ImageLists == UNION {[1..n -> ImagePaths] : n \in 0..MaxImages}

Modes == {"strict", "standard", "tolerant"}

\* what os.path.getsize gives when it raises OSError
OSError == -1

\* the file a path leads to: l.jpg is a symbolic link to a.jpg
Target(p) == IF p = "l.jpg" THEN "a.jpg" ELSE p

\* the bytes of a regular file, named by their MD5 digest
Bytes(p) == CASE p \in {"a.jpg", "b.jpg", "d.png"} -> "h1"
              [] p = "c.jpg" -> "h2"
              [] OTHER -> "h3"

StSize(p) == CASE p \in {"a.jpg", "b.jpg", "d.png"} -> 20000
               [] p = "c.jpg" -> 20500
               [] OTHER -> 90000

Shape(p) == CASE p \in {"a.jpg", "b.jpg", "d.png"} -> [width |-> 640, height |-> 480]
              [] p = "c.jpg" -> [width |-> 645, height |-> 480]
              [] OTHER -> [width |-> 1920, height |-> 1080]

Suffix(p) == IF p = "d.png" THEN ".png" ELSE ".jpg"

\* a path leads to a file: the entry is there and, for a link, its target too
PathExists(p, tree) == p \in tree /\ Target(p) \in tree

\* calculate_file_hash: the digest of the bytes read through the path, "" when
\* the file cannot be read
calculate_file_hash(p, bad) == IF p = bad THEN "" ELSE Bytes(Target(p))

getsize(p, bad) == IF p = bad THEN OSError ELSE StSize(Target(p))

\* get_image_info: width and height, None when the image cannot be read
get_image_info(p, bad) ==
    IF p = bad THEN [width |-> -1, height |-> -1] ELSE Shape(Target(p))

Abs(v) == IF v < 0 THEN 0 - v ELSE v

Larger(a, b) == IF a > b THEN a ELSE b

Smaller(a, b) == IF a < b THEN a ELSE b

\* max / min <= 1.05, in whole numbers
sizes_similar(size1, size2) ==
    /\ size1 # 0
    /\ size2 # 0
    /\ Larger(size1, size2) * 100 <= Smaller(size1, size2) * 105

files_similar(file1, file2, bad) ==
    LET info1 == get_image_info(file1, bad)
        info2 == get_image_info(file2, bad)
    IN  /\ Suffix(file1) = Suffix(file2)
        /\ \/ info1.width = -1
           \/ info2.width = -1
           \/ /\ Abs(info1.width - info2.width) <= 10
              /\ Abs(info1.height - info2.height) <= 10

HasKey(d, k) == \E i \in DOMAIN d : d[i].key = k

\* d[k] = v
DictPut(d, k, v) ==
    IF HasKey(d, k)
    THEN [i \in DOMAIN d |-> IF d[i].key = k THEN [key |-> k, files |-> v] ELSE d[i]]
    ELSE Append(d, [key |-> k, files |-> v])

\* d.setdefault(k, []).append(f)
DictAppend(d, k, f) ==
    IF HasKey(d, k)
    THEN [i \in DOMAIN d |->
            IF d[i].key = k THEN [key |-> k, files |-> Append(d[i].files, f)] ELSE d[i]]
    ELSE Append(d, [key |-> k, files |-> <<f>>])

\* the loop that groups the files from position i on by their hash
RECURSIVE hash_groups(_, _, _, _)
hash_groups(fl, i, groups, bad) ==
    IF i > Len(fl) THEN groups
    ELSE LET file_hash == calculate_file_hash(fl[i], bad)
         IN  hash_groups(fl, i + 1,
                         IF file_hash # "" THEN DictAppend(groups, file_hash, fl[i])
                                           ELSE groups,
                         bad)

\* the loop that groups the files from position i on by their size
RECURSIVE size_groups(_, _, _, _)
size_groups(fl, i, groups, bad) ==
    IF i > Len(fl) THEN groups
    ELSE LET file_size == getsize(fl[i], bad)
         IN  size_groups(fl, i + 1,
                         IF file_size # OSError THEN DictAppend(groups, file_size, fl[i])
                                                ELSE groups,
                         bad)

\* duplicates[file_hash] = files for the groups from position i on that have
\* more than one file
RECURSIVE KeepMultiple(_, _, _)
KeepMultiple(dups, groups, i) ==
    IF i > Len(groups) THEN dups
    ELSE KeepMultiple(IF Len(groups[i].files) > 1
                        THEN DictPut(dups, groups[i].key, groups[i].files)
                        ELSE dups,
                      groups, i + 1)

find_duplicates_strict(fl, bad) ==
    KeepMultiple(<<>>, hash_groups(fl, 1, <<>>, bad), 1)

\* the loop over the size groups from position i on
RECURSIVE WithinSizeGroups(_, _, _, _)
WithinSizeGroups(dups, sizes, i, bad) ==
    IF i > Len(sizes) THEN dups
    ELSE WithinSizeGroups(
            IF Len(sizes[i].files) <= 1 THEN dups
            ELSE KeepMultiple(dups, hash_groups(sizes[i].files, 1, <<>>, bad), 1),
            sizes, i + 1, bad)

find_duplicates_standard(fl, bad) ==
    WithinSizeGroups(<<>>, size_groups(fl, 1, <<>>, bad), 1, bad)

\* the inner loop of find_similar_duplicates from position j on: raised tells
\* that os.path.getsize(file2) raised OSError
RECURSIVE SimilarTo(_, _, _, _, _, _)
SimilarTo(fl, j, file1, similar_files, processed, bad) ==
    IF j > Len(fl)
    THEN [raised |-> FALSE, similar_files |-> similar_files, processed |-> processed]
    ELSE LET file2 == fl[j]
         IN  IF file2 \in processed
             THEN SimilarTo(fl, j + 1, file1, similar_files, processed, bad)
             ELSE IF getsize(file2, bad) = OSError
             THEN [raised |-> TRUE, similar_files |-> similar_files,
                   processed |-> processed]
             ELSE IF /\ sizes_similar(getsize(file1, bad), getsize(file2, bad))
                     /\ files_similar(file1, file2, bad)
             THEN SimilarTo(fl, j + 1, file1, Append(similar_files, file2),
                            processed \cup {file2}, bad)
             ELSE SimilarTo(fl, j + 1, file1, similar_files, processed, bad)

\* the outer loop of find_similar_duplicates from position i on
RECURSIVE SimilarFrom(_, _, _, _, _)
SimilarFrom(fl, i, processed, dups, bad) ==
    IF i > Len(fl) THEN dups
    ELSE LET file1 == fl[i]
             r == SimilarTo(fl, i + 1, file1, <<file1>>, processed, bad)
         IN  IF file1 \in processed
             THEN SimilarFrom(fl, i + 1, processed, dups, bad)
             ELSE IF getsize(file1, bad) = OSError
             THEN SimilarFrom(fl, i + 1, processed, dups, bad)
             ELSE IF r.raised
             THEN SimilarFrom(fl, i + 1, r.processed, dups, bad)
             ELSE SimilarFrom(fl, i + 1, r.processed \cup {file1},
                              IF Len(r.similar_files) > 1
                                THEN DictPut(dups, calculate_file_hash(file1, bad),
                                             r.similar_files)
                                ELSE dups,
                              bad)

find_similar_duplicates(fl, bad) == SimilarFrom(fl, 1, {}, <<>>, bad)

find_duplicates(fl, m, bad) ==
    CASE m = "strict" -> find_duplicates_strict(fl, bad)
      [] m = "tolerant" -> find_similar_duplicates(fl, bad)
      [] OTHER -> find_duplicates_standard(fl, bad)

\* the loop of delete_duplicates over files[k..] of the groups from position g
\* on: a path that leads to no file makes os.path.getsize raise, and the path
\* failing stays where it is because it cannot be moved to the trash
RECURSIVE RemoveFrom(_, _, _, _, _)
RemoveFrom(dups, g, k, tree, failing) ==
    IF g > Len(dups) THEN tree
    ELSE IF k > Len(dups[g].files) THEN RemoveFrom(dups, g + 1, 2, tree, failing)
    ELSE LET dup_file == dups[g].files[k]
         IN  RemoveFrom(dups, g, k + 1,
                        IF PathExists(dup_file, tree) /\ dup_file # failing
                          THEN tree \ {dup_file}
                          ELSE tree,
                        failing)

\* main up to the call of find_duplicates
DupFind ==
    /\ dpc = "idle"
    /\ \E fl \in ImageLists, m \in Modes, bad \in ImagePaths \cup {"none"} :
          /\ image_files' = fl
          /\ mode' = m
          /\ broken' = bad
          /\ duplicates' = find_duplicates(fl, m, bad)
    /\ dpc' = "found"
    /\ UNCHANGED <<present, outsideDup>>

\* delete_duplicates(duplicates, confirm)
DupDelete ==
    /\ dpc = "found"
    /\ \E confirm \in BOOLEAN, response \in {"y", "n"},
          failing \in ImagePaths \cup {"none"} :
          IF confirm /\ response # "y"
          THEN /\ dpc' = "cancelled"
               /\ UNCHANGED present
          ELSE /\ dpc' = "deleted"
               /\ present' = RemoveFrom(duplicates, 1, 2, present, failing)
    /\ UNCHANGED <<image_files, mode, broken, duplicates, outsideDup>>

DupNext == DupFind \/ DupDelete

SpecDup == Init /\ [][DupNext]_vars

GroupFiles(g) == {duplicates[g].files[k] : k \in DOMAIN duplicates[g].files}

\* C29: in every mode the groups find_duplicates returns have at least two
\* files each and share no file, and after delete_duplicates the first file of
\* every group has not been removed, so a file of every group still exists
C29_GroupsKeepAnOriginal ==
    dpc \in {"found", "cancelled", "deleted"} =>
        /\ \A g \in DOMAIN duplicates : Len(duplicates[g].files) >= 2
        /\ \A g, h \in DOMAIN duplicates :
              g # h => GroupFiles(g) \cap GroupFiles(h) = {}
        /\ \A g \in DOMAIN duplicates :
              /\ duplicates[g].files[1] \in present
              /\ \E p \in GroupFiles(g) : PathExists(p, present)

====
